---- MODULE Spec2Model ----
(***************************************************************************)
(* A model of the local data-serving core of vitessce (widget.py): the     *)
(* port resolver, BackgroundServer, the process-wide VitessceDataServer    *)
(* registry and the serve_routes dispatch, together with the per-config    *)
(* server table they call into and the uvicorn server thread they run.     *)
(***************************************************************************)
EXTENDS Integers, Sequences, FiniteSets, TLC

\* ------------------------------------------------------------- constants
MAX_PORT_TRIES == 1000
DEFAULT_PORT == 8000

\* Python's None, for the optional integer-valued fields (ports, object ids).
None == -1

\* ---------------------------------------------------------------- bounds
\* BackgroundServer instances that may be constructed in one behaviour.
MaxServers == 2
\* uvicorn Server/Thread pairs that may be created in one behaviour.
MaxRuns == 2
\* Ports DEFAULT_PORT .. DEFAULT_PORT + MaxExtOffset may be bound by other processes.
MaxExtOffset == 0
\* Length of the longest block of occupied ports tried beyond MAX_PORT_TRIES (PortSpec).
MaxOverrun == 1
\* VitessceWidget constructions in one behaviour.
MaxWidgets == 3
\* Wrapper instances, uuid4() values and conversions of one wrapper.
MaxWrappers == 3
MaxUuids == 6
MaxConverts == 1
\* How often one wrapper is converted where conversions are repeated.
MaxRepeats == 3
\* Nodes in the tree of a CellSets.
MaxNodes == 4

Configs == {"c1", "c2"}
Threads == {"main", "other"}
ExtPorts == DEFAULT_PORT .. (DEFAULT_PORT + MaxExtOffset)
\* Ports a caller may pass explicitly.
ExplicitPorts == {DEFAULT_PORT, DEFAULT_PORT + 1}
\* Route lists are modelled by their length; the handlers are opaque here.
RouteCounts == {0, 1}

VARIABLES
  servers,        \* the BackgroundServer instances, in order of construction
  runs,           \* the uvicorn Server + Thread pairs, in order of creation
  bg,             \* config -> its background_servers dict, as a sequence of <<port, server>>
  served_configs, \* data_server.served_configs
  extBound,       \* ports other processes listen on
  pc,             \* thread -> position in the code
  frame,          \* thread -> arguments and locals of the running call
  outcome,        \* thread -> how its last top-level call ended
  VitessceWidget_next_port, \* the class attribute VitessceWidget.next_port
  widgets,        \* the VitessceWidget instances, in order of construction
  lookup,         \* what the last coordination lookup returned or raised
  wrappers,       \* the data wrapper instances, in order of construction
  uuids,          \* how many uuid4() values have been minted
  wres,           \* what the last call on a wrapper returned or raised
  tree,           \* json['tree'] of the CellSets instance
  added           \* what the last call of add_node was given and whether it raised

widgetVars == <<VitessceWidget_next_port, widgets, lookup>>
wrapperVars == <<wrappers, uuids, wres>>
converterVars == <<tree, added>>

serverVars == <<servers, runs, bg, served_configs, extBound, pc, frame, outcome>>

vars == <<servers, runs, bg, served_configs, extBound, pc, frame, outcome,
          widgetVars, wrapperVars, converterVars>>

\* ----------------------------------------------------------- sequences
Range(s) == {s[i] : i \in 1..Len(s)}

\* ----------------------------------------------- the per-config server table
\* config.background_servers is a dict port -> BackgroundServer.
Keys(d) == {d[i][1] : i \in 1..Len(d)}

DictGet(d, k) == d[CHOOSE i \in 1..Len(d) : d[i][1] = k][2]

DictSet(d, k, v) ==
  IF k \in Keys(d)
  THEN [i \in 1..Len(d) |-> IF d[i][1] = k THEN <<k, v>> ELSE d[i]]
  ELSE Append(d, <<k, v>>)

DictDel(d, k) ==
  LET keep == {i \in 1..Len(d) : d[i][1] # k}
      nth(n) == CHOOSE i \in keep : Cardinality({j \in keep : j <= i}) = n
  IN [n \in 1..Cardinality(keep) |-> d[nth(n)]]

has_server(c, port) == port \in Keys(bg[c])

register_server(c, port, s) == [bg EXCEPT ![c] = DictSet(@, port, s)]

\* ------------------------------------------------------- the global registry
register_Broken(sc, c) == Append(sc, c)

register(sc, c) == IF c \notin Range(sc) THEN Append(sc, c) ELSE sc

\* ------------------------------------------------------------- the network
\* A run holds its port from a successful bind until its thread ends.
Listening == {runs[r].port : r \in {q \in 1..Len(runs) : runs[q].st = "listening"}}

\* is_port_in_use: a TCP connect to localhost:port succeeds.
is_port_in_use(port) == port \in (extBound \cup Listening)

\* ---------------------------------------------------------------- strings
\* A Python str is a sequence of pieces, each a character or a literal that is
\* never split; None where a str is expected is NoStr.
NoStr == <<"None">>

Digit(d) == <<"0", "1", "2", "3", "4", "5", "6", "7", "8", "9">>[d + 1]

\* str(n) of a non-negative int, as in the f-strings of lines 111-115.
RECURSIVE Str(_)
Str(n) == IF n < 10 THEN <<Digit(n)>> ELSE Str(n \div 10) \o <<Digit(n % 10)>>

\* ----------------------------------------------------------------- frames
NoFrame ==
  [op |-> "none", c |-> "c1", port |-> None, routes |-> 0, s |-> None,
   hint |-> None, use_port |-> None, next_port |-> None, port_tries |-> 0, probes |-> 0,
   i |-> 0, j |-> 0, snap |-> <<>>, log |-> <<>>,
   proxy |-> FALSE, base_url |-> NoStr, host_name |-> NoStr, installed |-> FALSE]

NewServer == [port |-> None, thread |-> None, server |-> None]

NewRun(port) == [port |-> port, started |-> FALSE, should_exit |-> FALSE, st |-> "new"]

\* An optional list: None, or its items.
NoList == [none |-> TRUE, items |-> <<>>]
List(items) == [none |-> FALSE, items |-> items]

\* The last call of get_cell_selection: the widget (0 for none), the scope
\* argument, and the value it returned or the exception it raised.
NoLookup ==
  [w |-> 0, scope |-> NoStr, raised |-> FALSE, exc |-> "none", message |-> <<>>,
   value |-> NoList]

\* The class attribute of line 328; no widget and no wrapper constructed yet.
WidgetInit ==
  /\ VitessceWidget_next_port = DEFAULT_PORT
  /\ widgets = <<>>
  /\ lookup = NoLookup

\* The keyword arguments of a constructor that are not given.
NoArgs ==
  [path |-> NoStr, url |-> NoStr, offsets_path |-> NoStr, offsets_url |-> NoStr,
   data_type |-> NoStr, obs_embedding_paths |-> NoList,
   obs_embedding_names |-> NoList, obs_embedding_dims |-> NoList,
   obs_feature_matrix_path |-> NoStr,
   obs_set_paths |-> NoList, obs_set_names |-> NoList,
   obs_locations_path |-> NoStr, obs_segmentations_path |-> NoStr,
   transformation_matrix |-> NoList, is_bitmask |-> FALSE]

\* The last call on a wrapper: the operation, the instance (0 for none), the
\* arguments, and what it returned or that it raised.
NoResult ==
  [op |-> "none", w |-> 0, raised |-> FALSE, value |-> <<>>,
   kind |-> "none", args |-> NoArgs,
   base_url |-> NoStr, dataset_uid |-> NoStr, obj_i |-> 0]

WrapperInit ==
  /\ wrappers = <<>>
  /\ uuids = 0
  /\ wres = NoResult

\* A node of the tree of a CellSets: its name, whether it has the key
\* 'children' and the list under it, and the list under 'set' if it has one.
Node(name, has_children, set) ==
  [name |-> name, has_children |-> has_children, children |-> <<>>, set |-> set]

\* CellSets.__init__ (converters.py, lines 61-75) with first_node_name 'all';
\* no call of add_node yet.
NoAdded ==
  [called |-> FALSE, raised |-> FALSE, name |-> "none", parent_path |-> <<>>,
   cell_set |-> NoList]

ConverterInit ==
  /\ tree = <<Node("all", TRUE, NoList)>>
  /\ added = NoAdded

Init ==
  /\ servers = <<>>
  /\ runs = <<>>
  /\ bg = [c \in Configs |-> <<>>]
  /\ served_configs = <<>>
  /\ extBound \in SUBSET ExtPorts
  /\ pc = [t \in Threads |-> "idle"]
  /\ frame = [t \in Threads |-> NoFrame]
  /\ outcome = [t \in Threads |-> "none"]
  /\ WidgetInit
  /\ WrapperInit
  /\ ConverterInit

\* A top-level call of thread t ends: normally, or by an exception.
Return(t) ==
  /\ pc' = [pc EXCEPT ![t] = "idle"]
  /\ outcome' = [outcome EXCEPT ![t] = "returned"]

Raise(t) ==
  /\ pc' = [pc EXCEPT ![t] = "idle"]
  /\ outcome' = [outcome EXCEPT ![t] = "raised"]

\* Room for the objects a call may create (the bounds of the model).
RoomToServe == Len(servers) < MaxServers /\ Len(runs) < MaxRuns
RoomToStart == Len(runs) < MaxRuns

\* ------------------------------------------------------- the server thread
\* Thread(target=self.server.run): uvicorn binds the port, flips `started`,
\* serves until should_exit, then ends. A failed bind ends the thread
\* (sys.exit inside the thread) with `started` still false.
RunBind(r) ==
  /\ r \in 1..Len(runs)
  /\ runs[r].st = "new"
  /\ IF is_port_in_use(runs[r].port)
     THEN runs' = [runs EXCEPT ![r].st = "failed"]
     ELSE runs' = [runs EXCEPT ![r].st = "listening", ![r].started = TRUE]
  /\ UNCHANGED <<servers, bg, served_configs, extBound, pc, frame, outcome, widgetVars, wrapperVars, converterVars>>

RunExit(r) ==
  /\ r \in 1..Len(runs)
  /\ runs[r].st = "listening"
  /\ runs[r].should_exit
  /\ runs' = [runs EXCEPT ![r].st = "exited"]
  /\ UNCHANGED <<servers, bg, served_configs, extBound, pc, frame, outcome, widgetVars, wrapperVars, converterVars>>

ThreadEnded(r) == runs[r].st \in {"failed", "exited"}

\* Another process takes or releases a port.
EnvTake(p) ==
  /\ p \in ExtPorts \ (extBound \cup Listening)
  /\ extBound' = extBound \cup {p}
  /\ UNCHANGED <<servers, runs, bg, served_configs, pc, frame, outcome, widgetVars, wrapperVars, converterVars>>

EnvRelease(p) ==
  /\ p \in extBound
  /\ extBound' = extBound \ {p}
  /\ UNCHANGED <<servers, runs, bg, served_configs, pc, frame, outcome, widgetVars, wrapperVars, converterVars>>

\* ------------------------------------------------- get_base_url_and_port
\* Lines 94-97 and 102-103: the first candidate, or the explicit port verbatim.
ResolveBegin(f, port, next_port) ==
  IF port = None
  THEN [f EXCEPT !.port = port, !.hint = next_port, !.use_port = next_port,
                 !.next_port = next_port + 1, !.port_tries = 1, !.probes = 0]
  ELSE [f EXCEPT !.port = port, !.hint = next_port, !.use_port = port,
                 !.next_port = next_port, !.port_tries = 0, !.probes = 0]

\* The loop condition of line 98.
ProbeAgain_OneMore(use_port, port_tries) ==
  is_port_in_use(use_port) /\ port_tries <= MAX_PORT_TRIES

ProbeAgain(use_port, port_tries) ==
  is_port_in_use(use_port) /\ port_tries < MAX_PORT_TRIES

\* ipython_display / launch_vitessce_io, lines 406-409 and 130-133: resolve
\* the port from DEFAULT_PORT, then to_dict and get_routes, then serve_routes.
CallDisplay(t, c, port, n) ==
  /\ pc[t] = "idle"
  /\ RoomToServe
  /\ frame' = [frame EXCEPT ![t] =
       [ResolveBegin(NoFrame, port, DEFAULT_PORT) EXCEPT
          !.op = "display", !.c = c, !.routes = n]]
  /\ pc' = [pc EXCEPT ![t] = IF port = None THEN "probe" ELSE "resolved"]
  /\ outcome' = [outcome EXCEPT ![t] = "none"]
  /\ UNCHANGED <<servers, runs, bg, served_configs, extBound, widgetVars, wrapperVars, converterVars>>

\* One evaluation of the while condition of line 98, and the body (99-101) if it holds.
ProbeStep(t) ==
  /\ pc[t] = "probe"
  /\ LET f == frame[t] IN
     IF ProbeAgain(f.use_port, f.port_tries)
     THEN /\ frame' = [frame EXCEPT ![t] =
                [f EXCEPT !.use_port = f.next_port, !.next_port = f.next_port + 1,
                          !.port_tries = f.port_tries + 1, !.probes = f.probes + 1]]
          /\ pc' = pc
     ELSE /\ frame' = [frame EXCEPT ![t].probes = f.probes + 1]
          /\ pc' = [pc EXCEPT ![t] = "resolved"]
  /\ UNCHANGED <<servers, runs, bg, served_configs, extBound, outcome, widgetVars, wrapperVars, converterVars>>

\* Lines 106-109: proxy mode without an explicit base URL needs the
\* jupyter_server_proxy module; `installed` is what find_spec finds.
ResolveRaises(f) == f.base_url = NoStr /\ f.proxy /\ ~f.installed

\* Lines 105-115: the base URL that is returned.
ResolvedBaseUrl(f) ==
  IF f.base_url # NoStr THEN f.base_url
  ELSE IF f.proxy
       THEN IF f.host_name = NoStr
            THEN <<"proxy/">> \o Str(f.use_port)
            ELSE f.host_name \o <<"/proxy/">> \o Str(f.use_port)
       ELSE <<"http://localhost:">> \o Str(f.use_port)

\* Lines 105-117 and the caller's lines 132-134 / 408-410: the ValueError
\* leaves through the caller, else the resolved port goes to serve_routes.
ResolveReturn(t) ==
  /\ pc[t] = "resolved"
  /\ frame[t].op = "display"
  /\ IF ResolveRaises(frame[t])
     THEN /\ Raise(t)
          /\ frame' = [frame EXCEPT ![t] = NoFrame]
     ELSE /\ pc' = [pc EXCEPT ![t] = "sr_check"]
          /\ frame' = [frame EXCEPT ![t].base_url = ResolvedBaseUrl(frame[t])]
          /\ UNCHANGED outcome
  /\ UNCHANGED <<servers, runs, bg, served_configs, extBound, widgetVars, wrapperVars, converterVars>>

\* A call of get_base_url_and_port alone, from the hint next_port.
CallResolve(t, port, next_port) ==
  /\ pc[t] = "idle"
  /\ frame' = [frame EXCEPT ![t] =
       [ResolveBegin(NoFrame, port, next_port) EXCEPT !.op = "resolve"]]
  /\ pc' = [pc EXCEPT ![t] = IF port = None THEN "probe" ELSE "resolved"]
  /\ outcome' = [outcome EXCEPT ![t] = "none"]
  /\ UNCHANGED <<servers, runs, bg, served_configs, extBound, widgetVars, wrapperVars, converterVars>>

\* A call of get_base_url_and_port alone with all of its arguments.
CallResolveUrl(t, port, next_port, proxy, base_url, host_name, installed) ==
  /\ pc[t] = "idle"
  /\ frame' = [frame EXCEPT ![t] =
       [ResolveBegin(NoFrame, port, next_port) EXCEPT
          !.op = "resolve", !.proxy = proxy, !.base_url = base_url,
          !.host_name = host_name, !.installed = installed]]
  /\ pc' = [pc EXCEPT ![t] = IF port = None THEN "probe" ELSE "resolved"]
  /\ outcome' = [outcome EXCEPT ![t] = "none"]
  /\ UNCHANGED <<servers, runs, bg, served_configs, extBound, widgetVars, wrapperVars, converterVars>>

\* ipython_display / launch_vitessce_io with all of the resolver's arguments.
CallDisplayUrl(t, c, port, n, proxy, base_url, host_name, installed) ==
  /\ pc[t] = "idle"
  /\ RoomToServe
  /\ frame' = [frame EXCEPT ![t] =
       [ResolveBegin(NoFrame, port, DEFAULT_PORT) EXCEPT
          !.op = "display", !.c = c, !.routes = n, !.proxy = proxy,
          !.base_url = base_url, !.host_name = host_name, !.installed = installed]]
  /\ pc' = [pc EXCEPT ![t] = IF port = None THEN "probe" ELSE "resolved"]
  /\ outcome' = [outcome EXCEPT ![t] = "none"]
  /\ UNCHANGED <<servers, runs, bg, served_configs, extBound, widgetVars, wrapperVars, converterVars>>

\* Lines 105-117: the ValueError, or the tuple (base_url, use_port, next_port)
\* goes back to the caller; the frame keeps the returned tuple.
ResolveDone(t) ==
  /\ pc[t] = "resolved"
  /\ frame[t].op = "resolve"
  /\ IF ResolveRaises(frame[t])
     THEN /\ Raise(t)
          /\ frame' = [frame EXCEPT ![t] = NoFrame]
     ELSE /\ Return(t)
          /\ frame' = [frame EXCEPT ![t] =
                [NoFrame EXCEPT !.base_url = ResolvedBaseUrl(frame[t]),
                                !.use_port = frame[t].use_port,
                                !.next_port = frame[t].next_port]]
  /\ UNCHANGED <<servers, runs, bg, served_configs, extBound, widgetVars, wrapperVars, converterVars>>

\* ------------------------------------------------------- VitessceWidget
\* VitessceWidget.__init__, lines 355-356: the resolver is called with the
\* class attribute as the hint.
CallWidget(t, c, port, n, proxy, installed) ==
  /\ pc[t] = "idle"
  /\ Len(widgets) < MaxWidgets
  /\ RoomToServe
  /\ frame' = [frame EXCEPT ![t] =
       [ResolveBegin(NoFrame, port, VitessceWidget_next_port) EXCEPT
          !.op = "widget", !.c = c, !.routes = n, !.proxy = proxy,
          !.installed = installed]]
  /\ pc' = [pc EXCEPT ![t] = IF port = None THEN "probe" ELSE "resolved"]
  /\ outcome' = [outcome EXCEPT ![t] = "none"]
  /\ UNCHANGED <<servers, runs, bg, served_configs, extBound, widgetVars, wrapperVars, converterVars>>

\* The hint the resolver hands back (line 117) for the class attribute.
returned_next_port_Same(f) == f.hint

returned_next_port(f) == f.next_port

\* The config dict of a widget whose coordination space has the one scope A
\* of type cellSelection, with no selection.
cellSelection == <<"cellSelection">>
DefaultConfig ==
  [coordinationSpace |-> << <<cellSelection, << << <<"A">>, NoList >> >> >> >>]

\* Lines 105-117 and 355-370: the ValueError leaves the constructor, else the
\* class attribute takes the returned hint, the widget keeps its config
\* object, the dict config.to_dict(base_url) made of it and its port, and the
\* constructor goes on to serve_routes.
WidgetResolvedWith(t, config_dict) ==
  /\ pc[t] = "resolved"
  /\ frame[t].op = "widget"
  /\ LET f == frame[t] IN
     IF ResolveRaises(f)
     THEN /\ Raise(t)
          /\ frame' = [frame EXCEPT ![t] = NoFrame]
          /\ UNCHANGED widgetVars
     ELSE /\ VitessceWidget_next_port' = returned_next_port(f)
          /\ widgets' = Append(widgets,
                [config_obj |-> f.c, port |-> f.use_port, port_arg |-> f.port,
                 config |-> config_dict])
          /\ pc' = [pc EXCEPT ![t] = "sr_check"]
          /\ frame' = [frame EXCEPT ![t].base_url = ResolvedBaseUrl(f)]
          /\ UNCHANGED <<outcome, lookup>>
  /\ UNCHANGED <<servers, runs, bg, served_configs, extBound, wrapperVars, converterVars>>

WidgetResolved(t) == WidgetResolvedWith(t, DefaultConfig)

\* ------------------------------------------------ coordination lookup
\* str(obj_scopes) inside the f-strings of lines 380 and 387: the repr of a
\* list of str.
RECURSIVE repr_items(_)
repr_items(scopes) ==
  IF scopes = <<>> THEN <<>>
  ELSE <<"'">> \o Head(scopes) \o <<"'">>
       \o (IF Len(scopes) > 1 THEN <<", ">> ELSE <<>>) \o repr_items(Tail(scopes))

repr_list(scopes) == <<"[">> \o repr_items(scopes) \o <<"]">>

\* The test of line 383 for the automatic choice of the scope.
single_scope_OrMore(obj_scopes) == Len(obj_scopes) >= 1

single_scope(obj_scopes) == Len(obj_scopes) = 1

\* VitessceWidget._get_coordination_value (lines 372-390).
_get_coordination_value(config, coordination_type, coordination_scope) ==
  IF coordination_type \notin Keys(config.coordinationSpace)
  THEN [NoLookup EXCEPT !.raised = TRUE, !.exc = "KeyError",
                        !.message = <<"'">> \o coordination_type \o <<"'">>]
  ELSE
    LET obj == DictGet(config.coordinationSpace, coordination_type)
        obj_scopes == [i \in 1..Len(obj) |-> obj[i][1]]
    IN IF coordination_scope # NoStr
       THEN IF coordination_scope \in Range(obj_scopes)
            THEN [NoLookup EXCEPT !.value = DictGet(obj, coordination_scope)]
            ELSE [NoLookup EXCEPT
                    !.raised = TRUE, !.exc = "ValueError",
                    !.message =
                       <<"The specified coordination scope '">> \o coordination_scope
                       \o <<"' could not be found for the coordination type '">>
                       \o coordination_type
                       \o <<"'. Known coordination scopes are ">>
                       \o repr_list(obj_scopes)]
       ELSE IF single_scope(obj_scopes)
            THEN [NoLookup EXCEPT !.value = DictGet(obj, obj_scopes[1])]
            ELSE IF Len(obj_scopes) > 1
                 THEN [NoLookup EXCEPT
                         !.raised = TRUE, !.exc = "ValueError",
                         !.message =
                            <<"The coordination scope could not be automatically determined because multiple coordination scopes exist for the coordination type '">>
                            \o coordination_type \o <<"'. Please specify one of ">>
                            \o repr_list(obj_scopes)
                            \o <<" using the scope parameter.">>]
                 ELSE [NoLookup EXCEPT
                         !.raised = TRUE, !.exc = "ValueError",
                         !.message =
                            <<"No coordination scopes were found for the coordination type '">>
                            \o coordination_type \o <<"'.">>]

\* get_cell_selection(scope) (lines 392-393) on widget w, whose constructor
\* has returned.
GetCellSelection(t, w, scope) ==
  /\ pc[t] = "idle"
  /\ outcome[t] = "returned"
  /\ w \in 1..Len(widgets)
  /\ lookup' = [_get_coordination_value(widgets[w].config, cellSelection, scope)
                  EXCEPT !.w = w, !.scope = scope]
  /\ UNCHANGED <<serverVars, VitessceWidget_next_port, widgets, wrapperVars, converterVars>>

\* ----------------------------------------------------------- serve_routes
CallServeRoutes(t, c, n, port) ==
  /\ pc[t] = "idle"
  /\ RoomToServe
  /\ frame' = [frame EXCEPT ![t] =
       [NoFrame EXCEPT !.op = "serve_routes", !.c = c, !.routes = n,
                       !.port = port, !.use_port = port]]
  /\ pc' = [pc EXCEPT ![t] = "sr_check"]
  /\ outcome' = [outcome EXCEPT ![t] = "none"]
  /\ UNCHANGED <<servers, runs, bg, served_configs, extBound, widgetVars, wrapperVars, converterVars>>

\* The condition of line 121.
serve_guard_NoPortCheck(c, n, use_port) == n > 0

serve_guard_NoRouteCheck(c, n, use_port) == ~has_server(c, use_port)

serve_guard(c, n, use_port) == ~has_server(c, use_port) /\ n > 0

SrCheck(t) ==
  /\ pc[t] = "sr_check"
  /\ IF serve_guard(frame[t].c, frame[t].routes, frame[t].use_port)
     THEN /\ pc' = [pc EXCEPT ![t] = "sr_register"]
          /\ UNCHANGED <<frame, outcome>>
     ELSE /\ Return(t)
          /\ frame' = [frame EXCEPT ![t] = NoFrame]
  /\ UNCHANGED <<servers, runs, bg, served_configs, extBound, widgetVars, wrapperVars, converterVars>>

\* Lines 122-124: construct the BackgroundServer, record it in the config's
\* table and the config in the global registry.
SrRegister_Recheck(t) ==
  /\ pc[t] = "sr_register"
  /\ LET f == frame[t]
         again == has_server(f.c, f.use_port)
         s == IF again THEN DictGet(bg[f.c], f.use_port) ELSE Len(servers) + 1
     IN /\ servers' = IF again THEN servers ELSE Append(servers, NewServer)
        /\ bg' = register_server(f.c, f.use_port, s)
        /\ served_configs' = register(served_configs, f.c)
        /\ frame' = [frame EXCEPT ![t].s = s]
  /\ pc' = [pc EXCEPT ![t] = "start_begin"]
  /\ UNCHANGED <<runs, extBound, outcome, widgetVars, wrapperVars, converterVars>>

SrRegister(t) ==
  /\ pc[t] = "sr_register"
  /\ LET f == frame[t]
         s == Len(servers) + 1
     IN /\ servers' = Append(servers, NewServer)
        /\ bg' = register_server(f.c, f.use_port, s)
        /\ served_configs' = register(served_configs, f.c)
        /\ frame' = [frame EXCEPT ![t].s = s]
  /\ pc' = [pc EXCEPT ![t] = "start_begin"]
  /\ UNCHANGED <<runs, extBound, outcome, widgetVars, wrapperVars, converterVars>>

\* --------------------------------------------------- BackgroundServer.start
CallStart(t, s, port) ==
  /\ pc[t] = "idle"
  /\ RoomToStart
  /\ s \in 1..Len(servers)
  /\ frame' = [frame EXCEPT ![t] =
       [NoFrame EXCEPT !.op = "start", !.s = s, !.port = port, !.use_port = port]]
  /\ pc' = [pc EXCEPT ![t] = "start_begin"]
  /\ outcome' = [outcome EXCEPT ![t] = "none"]
  /\ UNCHANGED <<servers, runs, bg, served_configs, extBound, widgetVars, wrapperVars, converterVars>>

\* The early return of lines 49-50.
already_started_Never(s) == FALSE

already_started(s) == servers[s].thread # None

\* Lines 49-61: return self if a thread is set; else make the Config, the
\* Server and the Thread, and start the thread.
StartBegin(t) ==
  /\ pc[t] = "start_begin"
  /\ LET f == frame[t]
         r == Len(runs) + 1
     IN IF already_started(f.s)
        THEN /\ Return(t)
             /\ frame' = [frame EXCEPT ![t] = NoFrame]
             /\ UNCHANGED <<servers, runs>>
        ELSE /\ runs' = Append(runs, NewRun(f.use_port))
             /\ servers' = [servers EXCEPT ![f.s].port = f.use_port,
                                           ![f.s].server = r,
                                           ![f.s].thread = r]
             /\ pc' = [pc EXCEPT ![t] = "start_wait"]
             /\ UNCHANGED <<frame, outcome>>
  /\ UNCHANGED <<bg, served_configs, extBound, widgetVars, wrapperVars, converterVars>>

\* The exit condition of the poll loop of lines 63-64.
start_may_return_Eager(s) == TRUE

start_may_return(s) == runs[servers[s].server].started

\* Lines 63-66: poll self.server.started, then return self.
StartWait(t) ==
  /\ pc[t] = "start_wait"
  /\ start_may_return(frame[t].s)
  /\ Return(t)
  /\ frame' = [frame EXCEPT ![t] = NoFrame]
  /\ UNCHANGED <<servers, runs, bg, served_configs, extBound, widgetVars, wrapperVars, converterVars>>

\* ---------------------------------------------------- BackgroundServer.stop
CallStop(t, s) ==
  /\ pc[t] = "idle"
  /\ s \in 1..Len(servers)
  /\ frame' = [frame EXCEPT ![t] = [NoFrame EXCEPT !.op = "stop", !.s = s]]
  /\ pc' = [pc EXCEPT ![t] = "stop_begin"]
  /\ outcome' = [outcome EXCEPT ![t] = "none"]
  /\ UNCHANGED <<servers, runs, bg, served_configs, extBound, widgetVars, wrapperVars, converterVars>>

\* Where control goes when stop returns self: to the caller of the top-level
\* stop, to the `del` of stop_server, or to the next server of stop_all_servers.
AfterStopPc(f) ==
  CASE f.op = "stop" -> "idle"
    [] f.op = "stop_server" -> "ss_del"
    [] OTHER -> "sas_loop"

AfterStop(t) ==
  LET f == frame[t] IN
  /\ pc' = [pc EXCEPT ![t] = AfterStopPc(f)]
  /\ IF f.op = "stop"
     THEN /\ outcome' = [outcome EXCEPT ![t] = "returned"]
          /\ frame' = [frame EXCEPT ![t] = NoFrame]
     ELSE /\ outcome' = outcome
          /\ frame' = [frame EXCEPT ![t].j = f.j + 1]

\* Lines 37-41: return at once without a thread; else set should_exit and join.
StopBegin(t) ==
  /\ pc[t] = "stop_begin"
  /\ LET s == frame[t].s IN
     IF servers[s].thread = None
     THEN /\ AfterStop(t)
          /\ UNCHANGED <<servers, runs>>
     ELSE /\ runs' = [runs EXCEPT ![servers[s].server].should_exit = TRUE]
          /\ pc' = [pc EXCEPT ![t] = "stop_join"]
          /\ UNCHANGED <<servers, frame, outcome>>
  /\ UNCHANGED <<bg, served_configs, extBound, widgetVars, wrapperVars, converterVars>>

\* The finally block of lines 43-45.
release(s) == [servers EXCEPT ![s].server = None, ![s].thread = None]

\* When thread.join() of line 42 may return.
join_may_return_Eager(s) == TRUE

join_may_return(s) == ThreadEnded(servers[s].thread)

\* Lines 42-46: join returns once the thread has ended; release both handles.
StopJoin(t) ==
  /\ pc[t] = "stop_join"
  /\ join_may_return(frame[t].s)
  /\ servers' = release(frame[t].s)
  /\ AfterStop(t)
  /\ UNCHANGED <<runs, bg, served_configs, extBound, widgetVars, wrapperVars, converterVars>>

\* Lines 40-45 when the join of line 42 raises (an interrupt of the blocked
\* call): the finally block releases both handles and the exception leaves
\* through every caller.
JoinRaises(t) ==
  /\ pc[t] = "stop_join"
  /\ servers' = release(frame[t].s)
  /\ Raise(t)
  /\ frame' = [frame EXCEPT ![t] = NoFrame]
  /\ UNCHANGED <<runs, bg, served_configs, extBound, widgetVars, wrapperVars, converterVars>>

\* ------------------------------------------------ the config's stop methods
\* config.stop_server(port), as called by VitessceWidget.close (line 396).
CallStopServer(t, c, port) ==
  /\ pc[t] = "idle"
  /\ IF has_server(c, port)
     THEN /\ frame' = [frame EXCEPT ![t] =
               [NoFrame EXCEPT !.op = "stop_server", !.c = c, !.port = port,
                               !.s = DictGet(bg[c], port)]]
          /\ pc' = [pc EXCEPT ![t] = "stop_begin"]
          /\ outcome' = [outcome EXCEPT ![t] = "none"]
     ELSE /\ Return(t)
          /\ frame' = [frame EXCEPT ![t] = NoFrame]
  /\ UNCHANGED <<servers, runs, bg, served_configs, extBound, widgetVars, wrapperVars, converterVars>>

SsDel(t) ==
  /\ pc[t] = "ss_del"
  /\ bg' = [bg EXCEPT ![frame[t].c] = DictDel(@, frame[t].port)]
  /\ Return(t)
  /\ frame' = [frame EXCEPT ![t] = NoFrame]
  /\ UNCHANGED <<servers, runs, served_configs, extBound, widgetVars, wrapperVars, converterVars>>

\* VitessceWidget.close, lines 395-397.
CallClose(t, w) ==
  /\ w \in 1..Len(widgets)
  /\ CallStopServer(t, widgets[w].config_obj, widgets[w].port)

\* config.stop_all_servers(): stop every server of the table, then empty it.
SasLoop(t) ==
  /\ pc[t] = "sas_loop"
  /\ LET f == frame[t] IN
     IF f.j <= Len(bg[f.c])
     THEN /\ frame' = [frame EXCEPT ![t].s = bg[f.c][f.j][2]]
          /\ pc' = [pc EXCEPT ![t] = "stop_begin"]
          /\ UNCHANGED bg
     ELSE /\ bg' = [bg EXCEPT ![f.c] = <<>>]
          /\ frame' = [frame EXCEPT ![t].i = f.i + 1]
          /\ pc' = [pc EXCEPT ![t] = "sa_loop"]
  /\ UNCHANGED <<servers, runs, served_configs, extBound, outcome, widgetVars, wrapperVars, converterVars>>

\* ------------------------------------------------------ VitessceDataServer
CallRegister(t, c) ==
  /\ pc[t] = "idle"
  /\ served_configs' = register(served_configs, c)
  /\ Return(t)
  /\ UNCHANGED <<servers, runs, bg, extBound, frame, widgetVars, wrapperVars, converterVars>>

CallStopAll(t) ==
  /\ pc[t] = "idle"
  /\ frame' = [frame EXCEPT ![t] =
       [NoFrame EXCEPT !.op = "stop_all", !.i = 1, !.snap = served_configs]]
  /\ pc' = [pc EXCEPT ![t] = "sa_loop"]
  /\ outcome' = [outcome EXCEPT ![t] = "none"]
  /\ UNCHANGED <<servers, runs, bg, served_configs, extBound, widgetVars, wrapperVars, converterVars>>

\* What line 76 leaves in served_configs.
cleared(sc) == <<>>

\* The configuration the i-th iteration of line 74 visits.
visit_Reversed(sc, i) == sc[Len(sc) + 1 - i]

visit(sc, i) == sc[i]

\* Lines 74-76: the for loop over served_configs, then the reset.
SaLoop(t) ==
  /\ pc[t] = "sa_loop"
  /\ LET f == frame[t] IN
     IF f.i <= Len(served_configs)
     THEN /\ frame' = [frame EXCEPT ![t].c = visit(served_configs, f.i), ![t].j = 1,
                                    ![t].log = Append(f.log, visit(served_configs, f.i))]
          /\ pc' = [pc EXCEPT ![t] = "sas_loop"]
          /\ UNCHANGED <<served_configs, outcome>>
     ELSE /\ served_configs' = cleared(served_configs)
          /\ Return(t)
          /\ frame' = [frame EXCEPT ![t] = NoFrame]
  /\ UNCHANGED <<servers, runs, bg, extBound, widgetVars, wrapperVars, converterVars>>

\* ------------------------------------------------------ wrappers: paths
\* The pieces of s before its first "/" and what follows that "/".
RECURSIVE Head_(_)
Head_(s) == IF s = <<>> \/ Head(s) = "/" THEN <<>> ELSE <<Head(s)>> \o Head_(Tail(s))

RECURSIVE Rest_(_)
Rest_(s) == IF s = <<>> THEN <<>> ELSE IF Head(s) = "/" THEN Tail(s) ELSE Rest_(Tail(s))

\* s.split('/'): the components between the slashes, empty ones included.
RECURSIVE split(_)
split(s) == IF "/" \notin Range(s) THEN <<s>> ELSE <<Head_(s)>> \o split(Rest_(s))

\* '/'.join(parts)
RECURSIVE join_slash(_)
join_slash(parts) ==
  IF parts = <<>> THEN <<>>
  ELSE IF Len(parts) = 1 THEN parts[1]
  ELSE parts[1] \o <<"/">> \o join_slash(Tail(parts))

RECURSIVE LeadingSlashes(_)
LeadingSlashes(s) ==
  IF s # <<>> /\ Head(s) = "/" THEN 1 + LeadingSlashes(Tail(s)) ELSE 0

\* The components PurePosixPath keeps: neither empty nor ".".
RECURSIVE KeptParts(_)
KeptParts(parts) ==
  IF parts = <<>> THEN <<>>
  ELSE IF parts[1] = <<>> \/ parts[1] = <<".">> THEN KeptParts(Tail(parts))
  ELSE <<parts[1]>> \o KeptParts(Tail(parts))

\* str(PurePosixPath(PurePath(local_path))) on a POSIX host: repeated and
\* trailing slashes and "." components go, ".." stays, exactly two leading
\* slashes stay two, and the empty path is ".".
PurePosixPath(local_path) ==
  LET n == LeadingSlashes(local_path)
      root == IF n = 0 THEN <<>> ELSE IF n = 2 THEN <<"/", "/">> ELSE <<"/">>
      body == join_slash(KeptParts(split(local_path)))
  IN IF root = <<>> /\ body = <<>> THEN <<".">> ELSE root \o body

startswith_slash(s) == s # <<>> /\ Head(s) = "/"

\* file_path_to_url_path (lines 14-19), path_class left at its default.
file_path_to_url_path(local_path, prepend_slash) ==
  LET url_path == PurePosixPath(local_path)
  IN IF prepend_slash /\ ~startswith_slash(url_path)
     THEN <<"/">> \o url_path
     ELSE url_path

\* os.path.join(a, b) on a POSIX host.
join(a, b) ==
  IF startswith_slash(b) THEN b
  ELSE IF a = <<>> \/ a[Len(a)] = "/" THEN a \o b
  ELSE a \o <<"/">> \o b

\* ---------------------------------------------------- wrappers: objects
\* The n-th value of str(uuid4()): each one is new.
uuid4(n) == <<"uuid4-">> \o Str(n)

\* AbstractWrapper.__init__ (lines 28-39), with the attributes the subclasses
\* add at their defaults.
NewWrapper ==
  [kind |-> "AbstractWrapper", routes |-> <<>>, is_remote |-> FALSE,
   file_def_creators |-> <<>>, base_dir |-> NoStr,
   path |-> NoStr, url |-> NoStr, offsets_url |-> NoStr,
   uid |-> NoStr, offsets_uid |-> NoStr, name |-> <<>>,
   data_type |-> NoStr, image_wrappers |-> <<>>,
   mappings_obsm |-> NoList, mappings_obsm_names |-> NoList,
   mappings_obsm_dims |-> NoList, expression_matrix |-> NoStr,
   cell_set_obs |-> NoList, cell_set_obs_names |-> NoList,
   spatial_centroid_obsm |-> NoStr, spatial_polygon_obsm |-> NoStr,
   transformation_matrix |-> NoList, is_bitmask |-> FALSE]

\* The ValueError tests of the constructors: OmeTiffWrapper 236-238,
\* CsvWrapper 362-369, OmeZarrWrapper 440-445, AnnDataWrapper 514-519,
\* MultivecZarrWrapper 658-663.
both_given(a) == a.url # NoStr /\ a.path # NoStr
neither_given(a) == a.url = NoStr /\ a.path = NoStr

init_raises_NotOnBoth(kind, a) ==
  CASE kind = "OmeTiffWrapper" -> FALSE
    [] kind = "CsvWrapper" -> a.data_type = NoStr \/ neither_given(a)
    [] OTHER -> neither_given(a)

init_raises(kind, a) ==
  CASE kind = "OmeTiffWrapper" ->
         a.url # NoStr /\ (a.path # NoStr \/ a.offsets_path # NoStr)
    [] kind = "CsvWrapper" ->
         a.data_type = NoStr \/ both_given(a) \/ neither_given(a)
    [] OTHER -> both_given(a) \/ neither_given(a)

\* How many uuid4() values a constructor leaves in an instance (234-235, 361,
\* 452, 526, 670); those minted before a ValueError are lost with the instance.
uuids_minted(kind, a) ==
  IF init_raises(kind, a) THEN 0
  ELSE IF kind = "OmeTiffWrapper" THEN 2 ELSE 1

\* The instance a constructor that does not raise leaves behind.
constructed(kind, a, n) ==
  LET w == [NewWrapper EXCEPT !.kind = kind, !.path = a.path, !.url = a.url,
                              !.is_remote = (a.url # NoStr), !.uid = uuid4(n + 1)]
  IN CASE kind = "OmeTiffWrapper" ->
            [w EXCEPT !.offsets_url = a.offsets_url, !.offsets_uid = uuid4(n + 2),
                      !.transformation_matrix = a.transformation_matrix,
                      !.is_bitmask = a.is_bitmask]
       [] kind = "CsvWrapper" -> [w EXCEPT !.data_type = a.data_type]
       [] kind = "AnnDataWrapper" ->
            [w EXCEPT !.mappings_obsm = a.obs_embedding_paths,
                      !.mappings_obsm_names = a.obs_embedding_names,
                      !.mappings_obsm_dims = a.obs_embedding_dims,
                      !.expression_matrix = a.obs_feature_matrix_path,
                      !.cell_set_obs = a.obs_set_paths,
                      !.cell_set_obs_names = a.obs_set_names,
                      !.spatial_centroid_obsm = a.obs_locations_path,
                      !.spatial_polygon_obsm = a.obs_segmentations_path]
       [] OTHER -> w

\* A call of the constructor of a path-based wrapper class.
Construct(kind, a) ==
  /\ Len(wrappers) < MaxWrappers
  /\ uuids + uuids_minted(kind, a) <= MaxUuids
  /\ uuids' = uuids + uuids_minted(kind, a)
  /\ IF init_raises(kind, a)
     THEN /\ wrappers' = wrappers
          /\ wres' = [NoResult EXCEPT !.op = "init", !.raised = TRUE,
                                      !.kind = kind, !.args = a]
     ELSE /\ wrappers' = Append(wrappers, constructed(kind, a, uuids))
          /\ wres' = [NoResult EXCEPT !.op = "init", !.w = Len(wrappers) + 1,
                                      !.kind = kind, !.args = a]
  /\ UNCHANGED <<serverVars, widgetVars, converterVars>>

\* MultiImageWrapper.__init__ (lines 165-169) over wrappers made before.
ConstructMulti(image_wrappers) ==
  /\ Len(wrappers) < MaxWrappers
  /\ \A i \in 1..Len(image_wrappers) :
       /\ image_wrappers[i] \in 1..Len(wrappers)
       /\ wrappers[image_wrappers[i]].kind = "OmeTiffWrapper"
  /\ wrappers' = Append(wrappers,
       [NewWrapper EXCEPT !.kind = "MultiImageWrapper",
                          !.image_wrappers = image_wrappers])
  /\ wres' = [NoResult EXCEPT !.op = "init", !.w = Len(wrappers) + 1,
                              !.kind = "MultiImageWrapper"]
  /\ UNCHANGED <<serverVars, widgetVars, uuids, converterVars>>

\* ------------------------------------------- wrappers: routes and URLs
\* _get_route_str (lines 137-138): "/" + "/".join(map(str, [...])).
_get_route_str_NoUid(dataset_uid, obj_i, args) ==
  <<"/">> \o join_slash(<<dataset_uid, Str(obj_i)>>)

_get_route_str(dataset_uid, obj_i, args) ==
  <<"/">> \o join_slash(<<dataset_uid, Str(obj_i)>> \o args)

\* _get_url (131-132) and _get_url_simple (134-135).
_get_url_NoObj(base_url, dataset_uid, obj_i, args) ==
  base_url \o <<"/">> \o join_slash(<<dataset_uid>> \o args)

_get_url(base_url, dataset_uid, obj_i, args) ==
  base_url \o _get_route_str(dataset_uid, obj_i, args)

_get_url_simple(base_url, suffix) == base_url \o <<"/">> \o suffix

\* A route: its path, the local file or directory it serves, and its class.
Route(path, file, class) == [path |-> path, file |-> file, class |-> class]

\* Which class of route serves the wrapper's source.
RouteClass(kind) ==
  IF kind \in {"OmeTiffWrapper", "CsvWrapper"} THEN "FileRoute" ELSE "Mount"

\* make_raster_routes (252-282), make_csv_routes (383-403) and
\* get_local_dir_route (106-129) behind make_image_routes (466-470),
\* make_anndata_routes (554-558), make_genomic_profiles_routes (684-688).
make_routes(w, dataset_uid, obj_i) ==
  IF w.is_remote THEN <<>>
  ELSE IF w.base_dir = NoStr
       THEN <<Route(_get_route_str(dataset_uid, obj_i, <<w.uid>>), w.path,
                    RouteClass(w.kind))>>
            \o (IF w.kind = "OmeTiffWrapper"
                THEN <<Route(_get_route_str(dataset_uid, obj_i, <<w.offsets_uid>>),
                             w.path, "JsonRoute")>>
                ELSE <<>>)
       ELSE <<Route(file_path_to_url_path(w.path, TRUE), join(w.base_dir, w.path),
                    RouteClass(w.kind))>>

\* get_offsets(self._img_path) of line 261 has no file to read when a local
\* OmeTiffWrapper was made without img_path.
convert_raises(w) == w.kind = "OmeTiffWrapper" /\ ~w.is_remote /\ w.path = NoStr

\* convert_and_save of a path-based wrapper (240-250, 371-381, 454-464,
\* 542-552, 672-682) with AbstractWrapper.convert_and_save (54-55).
convert_one_Replacing(w, dataset_uid, obj_i, base_dir) ==
  LET w1 == IF ~w.is_remote THEN [w EXCEPT !.base_dir = base_dir] ELSE w
  IN IF convert_raises(w1)
     THEN [w |-> w1, raised |-> TRUE]
     ELSE [w |-> [w1 EXCEPT
                    !.file_def_creators =
                       <<[dataset_uid |-> dataset_uid, obj_i |-> obj_i]>>,
                    !.routes = make_routes(w1, dataset_uid, obj_i)],
           raised |-> FALSE]

convert_one(w, dataset_uid, obj_i, base_dir) ==
  LET w1 == IF ~w.is_remote THEN [w EXCEPT !.base_dir = base_dir] ELSE w
  IN IF convert_raises(w1)
     THEN [w |-> w1, raised |-> TRUE]
     ELSE [w |-> [w1 EXCEPT
                    !.file_def_creators =
                       Append(@, [dataset_uid |-> dataset_uid, obj_i |-> obj_i]),
                    !.routes = @ \o make_routes(w1, dataset_uid, obj_i)],
           raised |-> FALSE]

\* The loop of lines 172-173 from its i-th image on.
RECURSIVE convert_images(_, _, _, _, _, _)
convert_images(ws, images, i, dataset_uid, obj_i, base_dir) ==
  IF i > Len(images) THEN [ws |-> ws, raised |-> FALSE]
  ELSE LET r == convert_one(ws[images[i]], dataset_uid, obj_i, base_dir)
           ws1 == [ws EXCEPT ![images[i]] = r.w]
       IN IF r.raised THEN [ws |-> ws1, raised |-> TRUE]
          ELSE convert_images(ws1, images, i + 1, dataset_uid, obj_i, base_dir)

\* MultiImageWrapper.make_raster_routes (180-184).
RECURSIVE image_routes(_, _)
image_routes(ws, images) ==
  IF images = <<>> THEN <<>>
  ELSE ws[Head(images)].routes \o image_routes(ws, Tail(images))

\* convert_and_save of wrapper w, whatever its class.
convert_and_save(ws, w, dataset_uid, obj_i, base_dir) ==
  IF ws[w].kind = "MultiImageWrapper"
  THEN LET r == convert_images(ws, ws[w].image_wrappers, 1, dataset_uid, obj_i,
                               base_dir)
       IN IF r.raised THEN r
          ELSE [ws |-> [r.ws EXCEPT
                          ![w].file_def_creators =
                             Append(@, [dataset_uid |-> dataset_uid, obj_i |-> obj_i]),
                          ![w].routes = @ \o image_routes(r.ws, ws[w].image_wrappers)],
                raised |-> FALSE]
  ELSE LET r == convert_one(ws[w], dataset_uid, obj_i, base_dir)
       IN [ws |-> [ws EXCEPT ![w] = r.w], raised |-> r.raised]

\* Every wrapper a conversion of w appends a creator to.
Converted(w) ==
  {w} \cup Range(wrappers[w].image_wrappers)

\* A call of convert_and_save on wrapper w, made while none of the wrappers it
\* converts has been converted k times.
ConvertAndSaveUpTo(w, dataset_uid, obj_i, base_dir, k) ==
  /\ w \in 1..Len(wrappers)
  /\ \A v \in Converted(w) : Len(wrappers[v].file_def_creators) < k
  /\ LET r == convert_and_save(wrappers, w, dataset_uid, obj_i, base_dir)
     IN /\ wrappers' = r.ws
        /\ wres' = [NoResult EXCEPT !.op = "convert_and_save", !.w = w,
                                    !.raised = r.raised,
                                    !.dataset_uid = dataset_uid, !.obj_i = obj_i]
  /\ UNCHANGED <<serverVars, widgetVars, uuids, converterVars>>

ConvertAndSave(w, dataset_uid, obj_i, base_dir) ==
  ConvertAndSaveUpTo(w, dataset_uid, obj_i, base_dir, MaxConverts)

\* file_path_to_url_path(None) of lines 103, 326 and 422 is a TypeError.
url_raises(w) == ~w.is_remote /\ w.base_dir # NoStr /\ w.path = NoStr

\* get_img_url (322-328, 472-475), get_csv_url (418-424), get_zarr_url
\* (560-564, 690-693) with get_local_dir_url (101-104).
get_source_url_Local(w, base_url, dataset_uid, obj_i) ==
  IF w.base_dir # NoStr
  THEN _get_url_simple(base_url, file_path_to_url_path(w.path, FALSE))
  ELSE _get_url(base_url, dataset_uid, obj_i, <<w.uid>>)

get_source_url(w, base_url, dataset_uid, obj_i) ==
  IF w.is_remote THEN w.url
  ELSE IF w.base_dir # NoStr
       THEN _get_url_simple(base_url, file_path_to_url_path(w.path, FALSE))
       ELSE _get_url(base_url, dataset_uid, obj_i, <<w.uid>>)

\* OmeTiffWrapper.get_offsets_url (330-335).
get_offsets_url_Img(w, base_url, dataset_uid, obj_i) ==
  IF w.offsets_url # NoStr \/ w.is_remote THEN w.offsets_url
  ELSE _get_url(base_url, dataset_uid, obj_i, <<w.uid>>)

get_offsets_url(w, base_url, dataset_uid, obj_i) ==
  IF w.offsets_url # NoStr \/ w.is_remote THEN w.offsets_url
  ELSE _get_url(base_url, dataset_uid, obj_i, <<w.offsets_uid>>)

\* A call of get_img_url, get_csv_url or get_zarr_url on wrapper w.
GetSourceUrl(w, base_url, dataset_uid, obj_i) ==
  /\ w \in 1..Len(wrappers)
  /\ wrappers[w].kind # "MultiImageWrapper"
  /\ wres' = [NoResult EXCEPT
                !.op = "get_source_url", !.w = w, !.raised = url_raises(wrappers[w]),
                !.value = IF url_raises(wrappers[w]) THEN NoStr
                          ELSE get_source_url(wrappers[w], base_url, dataset_uid, obj_i),
                !.base_url = base_url, !.dataset_uid = dataset_uid, !.obj_i = obj_i]
  /\ UNCHANGED <<serverVars, widgetVars, wrappers, uuids, converterVars>>

\* ------------------------------------------- wrappers: file definitions
\* FileType.RASTER_JSON.value and FileType.ANNDATA_ZARR.value.
RASTER_JSON == <<"raster.json">>
ANNDATA_ZARR == <<"anndata.zarr">>

\* OmeTiffWrapper.create_image_json (302-320): the image dict and its metadata
\* dict, each with the set of the keys it has; a key that is not set holds
\* NoStr or NoList.
metadata_keys(w, offsets_url) ==
  (IF offsets_url # NoStr /\ w.base_dir = NoStr THEN {"omeTiffOffsetsUrl"} ELSE {})
    \cup (IF ~w.transformation_matrix.none THEN {"transform"} ELSE {})
    \cup {"isBitmask"}

create_image_json(w, img_url, offsets_url) ==
  LET keys == metadata_keys(w, offsets_url)
  IN [keys |-> {"name", "type", "url"}
                 \cup (IF Cardinality(keys) > 0 THEN {"metadata"} ELSE {}),
      name |-> w.name, type |-> <<"ome-tiff">>, url |-> img_url,
      metadata |->
        [keys |-> keys,
         omeTiffOffsetsUrl |->
           IF "omeTiffOffsetsUrl" \in keys THEN offsets_url ELSE NoStr,
         transform |-> [matrix |-> w.transformation_matrix],
         isBitmask |-> IF "isBitmask" \in keys THEN w.is_bitmask ELSE FALSE]]

\* OmeTiffWrapper.make_image_def (284-287).
make_image_def(w, dataset_uid, obj_i, base_url) ==
  create_image_json(w, get_source_url(w, base_url, dataset_uid, obj_i),
                    get_offsets_url(w, base_url, dataset_uid, obj_i))

\* The loop of lines 195-198.
RECURSIVE image_defs(_, _, _, _, _)
image_defs(ws, images, dataset_uid, obj_i, base_url) ==
  IF images = <<>> THEN <<>>
  ELSE <<make_image_def(ws[Head(images)], dataset_uid, obj_i, base_url)>>
       \o image_defs(ws, Tail(images), dataset_uid, obj_i, base_url)

\* The embeddingType that line 588 derives from a path.
mapping_key(mapping) == LET parts == split(mapping) IN parts[Len(parts)]

\* What iterating a str yields: its characters.
chars(str) == [i \in 1..Len(str) |-> <<str[i]>>]

\* zip(names, paths) of line 580 into the entries of lines 581-585.
zip_entries(names, paths) ==
  [i \in 1..(IF Len(names) < Len(paths) THEN Len(names) ELSE Len(paths)) |->
     [path |-> paths[i], dims |-> <<0, 1>>, embeddingType |-> names[i]]]

\* The entries of the loop of lines 587-594.
keyed_entries(paths) ==
  [i \in 1..Len(paths) |->
     [path |-> paths[i], dims |-> <<0, 1>>, embeddingType |-> mapping_key(paths[i])]]

\* What the loop of lines 587-594 leaves in self._mappings_obsm_names: the key
\* of the last path, a str, held here as the items its iteration yields.
names_after(w) ==
  IF ~w.mappings_obsm.none /\ w.mappings_obsm_names.none /\ w.mappings_obsm.items # <<>>
  THEN List(chars(mapping_key(w.mappings_obsm.items[Len(w.mappings_obsm.items)])))
  ELSE w.mappings_obsm_names

\* The entries of obsSets (lines 602-612): zip(obs, names) with the names
\* given or the last components of the paths.
set_entries(w) ==
  LET obs == w.cell_set_obs.items
      names == IF ~w.cell_set_obs_names.none THEN w.cell_set_obs_names.items
               ELSE [i \in 1..Len(obs) |-> mapping_key(obs[i])]
  IN [i \in 1..(IF Len(names) < Len(obs) THEN Len(names) ELSE Len(obs)) |->
        [name |-> names[i], path |-> obs[i]]]

\* The keys of the options dict at line 622. The filter paths go inside
\* obsFeatureMatrix; no feature_labels_path is given.
options_keys_NoSets(w) ==
  (IF w.spatial_centroid_obsm # NoStr THEN {"obsLocations"} ELSE {})
    \cup (IF w.spatial_polygon_obsm # NoStr THEN {"obsSegmentations"} ELSE {})
    \cup (IF ~w.mappings_obsm.none THEN {"obsEmbedding"} ELSE {})
    \cup (IF w.expression_matrix # NoStr THEN {"obsFeatureMatrix"} ELSE {})

options_keys(w) ==
  (IF w.spatial_centroid_obsm # NoStr THEN {"obsLocations"} ELSE {})
    \cup (IF w.spatial_polygon_obsm # NoStr THEN {"obsSegmentations"} ELSE {})
    \cup (IF ~w.mappings_obsm.none THEN {"obsEmbedding"} ELSE {})
    \cup (IF ~w.cell_set_obs.none THEN {"obsSets"} ELSE {})
    \cup (IF w.expression_matrix # NoStr THEN {"obsFeatureMatrix"} ELSE {})

\* get_anndata_zarr (567-632): the file definition, or none without options;
\* the wrapper as the call leaves it; and whether line 597 raised IndexError.
get_anndata_zarr(w, creator, base_url) ==
  LET entries == IF w.mappings_obsm.none THEN <<>>
                 ELSE IF ~w.mappings_obsm_names.none
                      THEN zip_entries(w.mappings_obsm_names.items, w.mappings_obsm.items)
                      ELSE keyed_entries(w.mappings_obsm.items)
      dims == w.mappings_obsm_dims
      raised == ~w.mappings_obsm.none /\ ~dims.none /\ Len(dims.items) > Len(entries)
      with_dims == [i \in 1..Len(entries) |->
                      IF ~dims.none /\ i <= Len(dims.items)
                      THEN [entries[i] EXCEPT !.dims = dims.items[i]]
                      ELSE entries[i]]
      keys == options_keys(w)
  IN [w |-> [w EXCEPT !.mappings_obsm_names = names_after(w)],
      raised |-> raised,
      none |-> ~(Cardinality(keys) > 0),
      def |-> [fileType |-> ANNDATA_ZARR,
               url |-> get_source_url(w, base_url, creator.dataset_uid, creator.obj_i),
               options |->
                 [keys |-> keys,
                  obsLocations |-> [path |-> w.spatial_centroid_obsm],
                  obsSegmentations |-> [path |-> w.spatial_polygon_obsm],
                  obsEmbedding |->
                    IF w.mappings_obsm.none THEN NoList ELSE List(with_dims),
                  obsSets |->
                    IF w.cell_set_obs.none THEN NoList ELSE List(set_entries(w)),
                  obsFeatureMatrix |-> [path |-> w.expression_matrix]]]]

\* The file definition creators of the other classes: raster_file_def_creator
\* (188-203, 290-299), csv_file_def_creator (406-415), image_file_def_creator
\* (478-482), genomic_profiles_file_def_creator (696-700). No options and no
\* coordination values are given to a CsvWrapper.
file_def(ws, w, creator, base_url) ==
  LET x == ws[w]
      url == get_source_url(x, base_url, creator.dataset_uid, creator.obj_i)
  IN CASE x.kind = "MultiImageWrapper" ->
            [fileType |-> RASTER_JSON,
             options |-> [schemaVersion |-> <<"0.0.2">>,
                          usePhysicalSizeScaling |-> FALSE,
                          images |-> image_defs(ws, x.image_wrappers,
                                                creator.dataset_uid, creator.obj_i,
                                                base_url),
                          renderLayers |-> [i \in 1..Len(x.image_wrappers) |->
                                              ws[x.image_wrappers[i]].name]]]
       [] x.kind = "OmeTiffWrapper" ->
            [fileType |-> RASTER_JSON,
             options |-> [schemaVersion |-> <<"0.0.2">>,
                          images |-> <<make_image_def(x, creator.dataset_uid,
                                                      creator.obj_i, base_url)>>]]
       [] x.kind = "CsvWrapper" ->
            [fileType |-> x.data_type \o <<".csv">>, url |-> url]
       [] x.kind = "OmeZarrWrapper" ->
            [fileType |-> <<"image.ome-zarr">>, url |-> url]
       [] OTHER ->
            [fileType |-> <<"genomic-profiles.zarr">>, url |-> url]

\* Whether a creator of wrapper w raises: the TypeError of url_raises, in the
\* wrapper itself or in one of its images.
creator_raises(ws, w) ==
  \E v \in {w} \cup Range(ws[w].image_wrappers) : url_raises(ws[v])

\* get_file_defs (66-80) from its i-th creator on: the definitions, the
\* wrappers as the calls leave them, and whether a creator raised.
RECURSIVE file_defs_from(_, _, _, _)
file_defs_from(ws, w, i, base_url) ==
  IF i > Len(ws[w].file_def_creators)
  THEN [defs |-> <<>>, ws |-> ws, raised |-> FALSE]
  ELSE LET creator == ws[w].file_def_creators[i] IN
       IF ws[w].kind = "AnnDataWrapper"
       THEN LET r == get_anndata_zarr(ws[w], creator, base_url)
                ws1 == [ws EXCEPT ![w] = r.w]
                rest == file_defs_from(ws1, w, i + 1, base_url)
            IN IF r.raised \/ creator_raises(ws, w)
               THEN [defs |-> <<>>, ws |-> ws1, raised |-> TRUE]
               ELSE [defs |-> (IF r.none THEN <<>> ELSE <<r.def>>) \o rest.defs,
                     ws |-> rest.ws, raised |-> rest.raised]
       ELSE IF creator_raises(ws, w)
            THEN [defs |-> <<>>, ws |-> ws, raised |-> TRUE]
            ELSE LET rest == file_defs_from(ws, w, i + 1, base_url)
                 IN [defs |-> <<file_def(ws, w, creator, base_url)>> \o rest.defs,
                     ws |-> rest.ws, raised |-> rest.raised]

\* A call of get_file_defs(base_url) on wrapper w.
GetFileDefs(w, base_url) ==
  /\ w \in 1..Len(wrappers)
  /\ LET r == file_defs_from(wrappers, w, 1, base_url)
     IN /\ wrappers' = r.ws
        /\ wres' = [NoResult EXCEPT !.op = "get_file_defs", !.w = w,
                                    !.raised = r.raised,
                                    !.value = IF r.raised THEN <<>> ELSE r.defs,
                                    !.base_url = base_url]
  /\ UNCHANGED <<serverVars, widgetVars, uuids, converterVars>>

\* ------------------------------------------------------------ cell sets
\* A reference to a node of the tree: None, or the indices that lead to it
\* from the list the search started in.
NoNode == [none |-> TRUE, pos |-> <<>>]
NodeAt(pos) == [none |-> FALSE, pos |-> pos]

\* The list comprehension of lines 103 and 110: the not-None entries.
not_none(found_nodes) == {i \in 1..Len(found_nodes) : ~found_nodes[i].none}

\* Which entry line 105 returns when exactly one child was found.
returned_child(found_nodes) ==
  IF found_nodes[1].none THEN NoNode
  ELSE NodeAt(<<1>> \o found_nodes[1].pos)

\* CellSets._find_node_by_path (lines 94-106); curr_index counts from 0.
RECURSIVE _find_node_by_path(_, _, _)
_find_node_by_path(node, path, curr_index) ==
  IF node.name = path[curr_index + 1]
  THEN IF curr_index = Len(path) - 1
       THEN NodeAt(<<>>)
       ELSE IF node.has_children
            THEN LET found_nodes ==
                       [i \in 1..Len(node.children) |->
                          _find_node_by_path(node.children[i], path, curr_index + 1)]
                 IN IF Cardinality(not_none(found_nodes)) = 1
                    THEN returned_child(found_nodes)
                    ELSE NoNode
            ELSE NoNode
  ELSE NoNode

\* CellSets._tree_find_node_by_path (lines 108-113).
_tree_find_node_by_path(nodes, path) ==
  LET found_nodes == [i \in 1..Len(nodes) |-> _find_node_by_path(nodes[i], path, 0)]
  IN IF Cardinality(not_none(found_nodes)) = 1
     THEN LET i == CHOOSE j \in not_none(found_nodes) : TRUE
          IN NodeAt(<<i>> \o found_nodes[i].pos)
     ELSE NoNode

\* Lines 89-92 on the node at pos: the key 'children' is created with the new
\* node, or the new node is appended to the list under it.
RECURSIVE append_child(_, _, _)
append_child(nodes, pos, new_node) ==
  IF Len(pos) = 1
  THEN [nodes EXCEPT ![pos[1]].has_children = TRUE,
                     ![pos[1]].children = Append(@, new_node)]
  ELSE [nodes EXCEPT ![pos[1]].children = append_child(@, Tail(pos), new_node)]

\* How many nodes the lists hold, with all below them.
RECURSIVE size(_)
size(nodes) ==
  IF nodes = <<>> THEN 0
  ELSE 1 + size(Head(nodes).children) + size(Tail(nodes))

\* CellSets.add_node (lines 77-92): without a parent node line 89 raises
\* TypeError ('children' not in None); an empty or None cell_set leaves the
\* new node without the key 'set'.
add_node(name, parent_path, cell_set) ==
  /\ size(tree) < MaxNodes
  /\ LET parent_node == _tree_find_node_by_path(tree, parent_path)
         new_node == Node(name, FALSE,
                          IF cell_set.none \/ cell_set.items = <<>> THEN NoList
                          ELSE cell_set)
     IN /\ tree' = IF parent_node.none THEN tree
                   ELSE append_child(tree, parent_node.pos, new_node)
        /\ added' = [called |-> TRUE, raised |-> parent_node.none, name |-> name,
                     parent_path |-> parent_path, cell_set |-> cell_set]
  /\ UNCHANGED <<serverVars, widgetVars, wrapperVars>>

\* ------------------------------------------------------------ behaviours
Call(t) ==
  \/ \E c \in Configs, port \in ExplicitPorts \cup {None}, n \in RouteCounts :
       CallDisplay(t, c, port, n)
  \/ \E c \in Configs, port \in ExplicitPorts, n \in RouteCounts :
       CallServeRoutes(t, c, n, port)
  \/ \E s \in 1..MaxServers, port \in ExplicitPorts : CallStart(t, s, port)
  \/ \E s \in 1..MaxServers : CallStop(t, s)
  \/ \E c \in Configs, port \in ExplicitPorts : CallStopServer(t, c, port)
  \/ \E c \in Configs : CallRegister(t, c)
  \/ CallStopAll(t)

Step(t) ==
  \/ ProbeStep(t)
  \/ ResolveReturn(t)
  \/ SrCheck(t)
  \/ SrRegister(t)
  \/ StartBegin(t)
  \/ StartWait(t)
  \/ StopBegin(t)
  \/ StopJoin(t)
  \/ SsDel(t)
  \/ SasLoop(t)
  \/ SaLoop(t)

Server ==
  \/ \E r \in 1..MaxRuns : RunBind(r)
  \/ \E r \in 1..MaxRuns : RunExit(r)

Env ==
  \/ \E p \in ExtPorts : EnvTake(p)
  \/ \E p \in ExtPorts : EnvRelease(p)

\* Sequential use: every call is made from the one main thread.
Next ==
  \/ Call("main")
  \/ Step("main")
  \/ JoinRaises("main")
  \/ Server
  \/ Env

Spec == Init /\ [][Next]_vars

\* Repeated display / launch calls that leave the port to the resolver, with
\* no other process taking or releasing a port meanwhile.
DisplayNext ==
  \/ \E c \in Configs, n \in RouteCounts : CallDisplay("main", c, None, n)
  \/ ProbeStep("main")
  \/ ResolveReturn("main")
  \/ SrCheck("main")
  \/ SrRegister("main")
  \/ StartBegin("main")
  \/ StartWait("main")
  \/ \E r \in 1..MaxRuns : RunBind(r)

DisplaySpec == Init /\ [][DisplayNext]_vars

\* The blocked calls and the server threads keep running: the poll loop of
\* start and join re-check their conditions, a started thread gets to run.
\* Nothing promises a raising join, a further call or a change of the ports.
FairSpec == Spec /\ WF_vars(Step("main")) /\ WF_vars(Server)

\* Two threads call serve_routes with nothing to synchronize them: a thread
\* may be switched between the test of line 121 and the statements after it.
ConcurrentNext ==
  \/ \E t \in Threads, c \in Configs, port \in ExplicitPorts, n \in RouteCounts :
       CallServeRoutes(t, c, n, port)
  \/ \E t \in Threads : SrCheck(t)
  \/ \E t \in Threads : SrRegister(t)
  \/ \E t \in Threads : StartBegin(t)
  \/ \E t \in Threads : StartWait(t)
  \/ \E r \in 1..(MaxRuns + 1) : RunBind(r)

ConcurrentSpec == Init /\ [][ConcurrentNext]_vars

\* ------------------------------------------------- port resolution alone
\* Occupied ports: a block from DEFAULT_PORT on, of a length around the try
\* budget, with at most one free port inside it.
BlockLens == {0, 1, 2, MAX_PORT_TRIES - 1} \cup
             (MAX_PORT_TRIES .. (MAX_PORT_TRIES + MaxOverrun))
HoleOffsets == {None, 1, MAX_PORT_TRIES - 1}
Hints == {DEFAULT_PORT, DEFAULT_PORT + 1}

PortInit ==
  /\ servers = <<>>
  /\ runs = <<>>
  /\ bg = [c \in Configs |-> <<>>]
  /\ served_configs = <<>>
  /\ \E k \in BlockLens, h \in HoleOffsets :
       extBound = (DEFAULT_PORT .. (DEFAULT_PORT + k - 1)) \ {DEFAULT_PORT + h}
  /\ pc = [t \in Threads |-> "idle"]
  /\ frame = [t \in Threads |-> NoFrame]
  /\ outcome = [t \in Threads |-> "none"]
  /\ WidgetInit
  /\ WrapperInit
  /\ ConverterInit

PortNext ==
  \/ \E port \in ExplicitPorts \cup {None}, hint \in Hints :
       CallResolve("main", port, hint)
  \/ ProbeStep("main")
  \/ ResolveDone("main")

PortSpec == PortInit /\ [][PortNext]_vars

\* ------------------------------------------- widgets made and closed
WidgetNext ==
  \/ \E c \in Configs, port \in ExplicitPorts \cup {None}, n \in RouteCounts,
        proxy \in BOOLEAN, installed \in BOOLEAN :
       CallWidget("main", c, port, n, proxy, installed)
  \/ \E w \in 1..MaxWidgets : CallClose("main", w)
  \/ ProbeStep("main")
  \/ WidgetResolved("main")
  \/ SrCheck("main")
  \/ SrRegister("main")
  \/ StartBegin("main")
  \/ StartWait("main")
  \/ StopBegin("main")
  \/ StopJoin("main")
  \/ SsDel("main")
  \/ Server
  \/ Env

WidgetSpec == Init /\ [][WidgetNext]_vars

\* ------------------------------------------- one widget and its lookups
\* The cellSelection entry of a coordination space: no scope, one scope, or
\* the scopes A and B, each with no selection or with one.
ScopeNames == {<<"A">>, <<"B">>}
Selections == {NoList, List(<<"cell1">>)}

Objs ==
  {<<>>}
    \cup {<< <<s, v>> >> : s \in ScopeNames, v \in Selections}
    \cup {<< << <<"A">>, v1 >>, << <<"B">>, v2 >> >> : v1 \in Selections, v2 \in Selections}

\* The config dicts: a coordination space without the type, or with it.
ConfigDicts ==
  {[coordinationSpace |-> <<>>]}
    \cup {[coordinationSpace |-> << <<cellSelection, obj>> >>] : obj \in Objs}

\* The scope argument: None, a scope a space may have, one that none has.
ScopeArgs == {NoStr, <<"A">>, <<"B">>, <<"C">>}

LookupNext ==
  \/ \E c \in Configs, port \in ExplicitPorts \cup {None}, n \in RouteCounts :
       widgets = <<>> /\ CallWidget("main", c, port, n, FALSE, FALSE)
  \/ ProbeStep("main")
  \/ \E config_dict \in ConfigDicts : WidgetResolvedWith("main", config_dict)
  \/ SrCheck("main")
  \/ SrRegister("main")
  \/ StartBegin("main")
  \/ StartWait("main")
  \/ \E r \in 1..MaxRuns : RunBind(r)
  \/ \E scope \in ScopeArgs : GetCellSelection("main", 1, scope)

LookupSpec == Init /\ [][LookupNext]_vars

\* ------------------------------------- the resolver with all its arguments
\* An explicit base URL and a host name, or None for either.
BaseUrls == {NoStr, <<"http://example.org">>}
HostNames == {NoStr, <<"https://hub.example.org">>}

UrlNext ==
  \/ \E port \in ExplicitPorts \cup {None}, hint \in Hints, proxy \in BOOLEAN,
        base_url \in BaseUrls, host_name \in HostNames, installed \in BOOLEAN :
       CallResolveUrl("main", port, hint, proxy, base_url, host_name, installed)
  \/ \E c \in Configs, port \in ExplicitPorts \cup {None}, n \in RouteCounts,
        proxy \in BOOLEAN, base_url \in BaseUrls, host_name \in HostNames,
        installed \in BOOLEAN :
       CallDisplayUrl("main", c, port, n, proxy, base_url, host_name, installed)
  \/ ProbeStep("main")
  \/ ResolveDone("main")
  \/ ResolveReturn("main")
  \/ SrCheck("main")
  \/ SrRegister("main")
  \/ StartBegin("main")
  \/ StartWait("main")
  \/ \E r \in 1..MaxRuns : RunBind(r)

UrlSpec == Init /\ [][UrlNext]_vars

\* --------------------------------------------------- wrappers in use
PathKinds ==
  {"OmeTiffWrapper", "CsvWrapper", "OmeZarrWrapper", "AnnDataWrapper",
   "MultivecZarrWrapper"}

\* A path below the base directory, and an absolute one.
LocalPaths == {<<"cells.csv">>, <<"/", "data", "/", "cells.csv">>}
RemoteUrls == {<<"https://example.org/cells.csv">>}
BaseDirs == {NoStr, <<"/", "data">>}
DatasetUids == {<<"A">>}
ObjIs == {0, 1}
WrapperBaseUrls == {<<"http://localhost:8000">>, <<"proxy/8000">>}

ObsmPaths ==
  List(<< <<"obsm", "/", "X", "_", "u", "m", "a", "p">>,
          <<"obsm", "/", "X", "_", "p", "c", "a">> >>)
ObsmNames == List(<< <<"UMAP">>, <<"PCA">> >>)
ObsmDims == List(<< <<2, 3>> >>)

ObsSetPaths == List(<< <<"obs", "/", "louvain">> >>)

\* The optional axes an AnnDataWrapper is given: none, the expression matrix,
\* embeddings without names, embeddings with names and dimensions, an empty
\* list of embeddings, cell sets, centroids, segmentations.
AxisArgs ==
  {[NoArgs EXCEPT !.obs_feature_matrix_path = <<"X">>],
   [NoArgs EXCEPT !.obs_embedding_paths = ObsmPaths],
   [NoArgs EXCEPT !.obs_embedding_paths = ObsmPaths, !.obs_embedding_names = ObsmNames,
                  !.obs_embedding_dims = ObsmDims],
   [NoArgs EXCEPT !.obs_embedding_paths = List(<<>>)],
   [NoArgs EXCEPT !.obs_set_paths = ObsSetPaths],
   [NoArgs EXCEPT !.obs_locations_path = <<"obsm/spatial">>],
   [NoArgs EXCEPT !.obs_segmentations_path = <<"obsm/segmentations">>],
   NoArgs}

\* What an OmeTiffWrapper is given besides its image: nothing, a remote
\* offsets URL, a transformation matrix, a bitmask flag, or all of them.
OffsetsUrl == <<"https://example.org/offsets.json">>
Matrix == List(<<1, 0, 0, 1>>)

ImageArgs ==
  {NoArgs,
   [NoArgs EXCEPT !.offsets_url = OffsetsUrl],
   [NoArgs EXCEPT !.transformation_matrix = Matrix],
   [NoArgs EXCEPT !.is_bitmask = TRUE],
   [NoArgs EXCEPT !.offsets_url = OffsetsUrl, !.transformation_matrix = Matrix,
                  !.is_bitmask = TRUE]}

CtorArgs ==
  {[a EXCEPT !.path = path, !.url = url, !.data_type = data_type] :
     a \in AxisArgs \cup ImageArgs, path \in LocalPaths \cup {NoStr},
     url \in RemoteUrls \cup {NoStr}, data_type \in {NoStr, <<"obs">>}}

\* The arguments with those of the other classes left out.
OwnArgs(kind, a) ==
  CASE kind = "AnnDataWrapper" ->
         [a EXCEPT !.offsets_url = NoStr, !.transformation_matrix = NoList,
                   !.is_bitmask = FALSE, !.data_type = NoStr]
    [] kind = "OmeTiffWrapper" ->
         [NoArgs EXCEPT !.path = a.path, !.url = a.url, !.offsets_url = a.offsets_url,
                        !.transformation_matrix = a.transformation_matrix,
                        !.is_bitmask = a.is_bitmask]
    [] kind = "CsvWrapper" ->
         [NoArgs EXCEPT !.path = a.path, !.url = a.url, !.data_type = a.data_type]
    [] OTHER -> [NoArgs EXCEPT !.path = a.path, !.url = a.url]

\* The constructor calls: a class with arguments that mean something to it.
ConstructCalls == {c \in PathKinds \X CtorArgs : c[2] = OwnArgs(c[1], c[2])}

\* The life of one wrapper of any class: made, converted, asked for its URL
\* and for its file definitions.
WrapperNext ==
  \/ \E c \in ConstructCalls : wrappers = <<>> /\ Construct(c[1], c[2])
  \/ \E dataset_uid \in DatasetUids, obj_i \in ObjIs, base_dir \in BaseDirs :
       ConvertAndSave(1, dataset_uid, obj_i, base_dir)
  \/ \E base_url \in WrapperBaseUrls, dataset_uid \in DatasetUids, obj_i \in ObjIs :
       GetSourceUrl(1, base_url, dataset_uid, obj_i)
  \/ \E base_url \in WrapperBaseUrls : GetFileDefs(1, base_url)

\* No port matters to a wrapper: none is taken.
WrappersInit == Init /\ extBound = {}

WrapperSpec == WrappersInit /\ [][WrapperNext]_vars

\* Several local wrappers side by side under the indexed policy (no base_dir):
\* one of each class on the same file, and images inside a MultiImageWrapper.
IndexedCalls ==
  {c \in ConstructCalls :
     c[2] = [NoArgs EXCEPT !.path = <<"cells.csv">>,
                           !.data_type = IF c[1] = "CsvWrapper" THEN <<"obs">> ELSE NoStr]}

ImageLists == {<<1>>, <<1, 2>>}

IndexedNext ==
  \/ \E c \in IndexedCalls : Construct(c[1], c[2])
  \/ \E images \in ImageLists : ConstructMulti(images)
  \/ \E w \in 1..MaxWrappers, dataset_uid \in DatasetUids, obj_i \in ObjIs :
       ConvertAndSave(w, dataset_uid, obj_i, NoStr)
  \/ \E w \in 1..MaxWrappers, base_url \in WrapperBaseUrls : GetFileDefs(w, base_url)

IndexedSpec == WrappersInit /\ [][IndexedNext]_vars

\* ------------------------------------------------- a tree of cell sets
NodeNames == {"a", "b"}
ParentPaths ==
  {<<"all">>} \cup {<<"all", x>> : x \in NodeNames}
    \cup {<<"all", x, y>> : x \in NodeNames, y \in NodeNames}
CellLists == {NoList, List(<<>>), List(<<"cell1">>)}

CellSetsNext ==
  \E name \in NodeNames, parent_path \in ParentPaths, cell_set \in CellLists :
    add_node(name, parent_path, cell_set)

CellSetsSpec == WrappersInit /\ [][CellSetsNext]_vars

\* One wrapper converted again and again, with the same or other arguments.
RepeatCalls ==
  {c \in ConstructCalls :
     /\ c[2].path \in {NoStr, <<"cells.csv">>}
     /\ c[2].obs_embedding_names = NoList
     /\ ~init_raises(c[1], c[2])}

RepeatNext ==
  \/ \E c \in RepeatCalls : wrappers = <<>> /\ Construct(c[1], c[2])
  \/ \E dataset_uid \in DatasetUids, obj_i \in ObjIs, base_dir \in BaseDirs :
       ConvertAndSaveUpTo(1, dataset_uid, obj_i, base_dir, MaxRepeats)
  \/ \E base_url \in WrapperBaseUrls, dataset_uid \in DatasetUids, obj_i \in ObjIs :
       GetSourceUrl(1, base_url, dataset_uid, obj_i)
  \/ \E base_url \in WrapperBaseUrls : GetFileDefs(1, base_url)

RepeatSpec == WrappersInit /\ [][RepeatNext]_vars

\* ======================================================== the claims
\* The BackgroundServer a running call works on, and the run it started.
RunOf(s) == servers[s].thread

InServeRoutes(t) == frame[t].op \in {"serve_routes", "display"}

\* Thread t takes a step of its own call.
Moves(t) == pc'[t] # pc[t] \/ frame'[t] # frame[t]

\* What C1 asks of one step of thread t.
C1_Step(t) ==
  LET f == frame[t] IN
  /\ (pc[t] = "sr_check" /\ Moves(t) /\ has_server(f.c, f.use_port))
       => /\ pc'[t] = "idle"
          /\ UNCHANGED <<servers, runs, bg, served_configs>>
  /\ Len(servers') > Len(servers)
       => /\ pc[t] = "sr_register"
          /\ ~has_server(f.c, f.use_port)
          /\ Len(servers') = Len(servers) + 1
  /\ (InServeRoutes(t) /\ Len(runs') > Len(runs))
       => /\ pc[t] = "start_begin"
          /\ DictGet(bg[f.c], f.use_port) = f.s
          /\ servers[f.s].thread = None
          /\ Len(runs') = Len(runs) + 1

\* C1: sequential serve_routes calls on one configuration and one port create,
\* register and start at most one BackgroundServer for that port: a call that
\* finds has_server(port) true returns without constructing a server, touching
\* the table or the registry, or starting a thread; a server is constructed
\* only while the port has none, and the only thread a serve_routes call
\* starts is that of the server it has just registered for the port.
C1_AtMostOneServerPerPort == [][C1_Step("main")]_vars

\* A serve_routes call with routes stands at its check for a port that the
\* configuration already has a started server for.
C1_Witness ==
  /\ pc["main"] = "sr_check"
  /\ frame["main"].routes > 0
  /\ has_server(frame["main"].c, frame["main"].use_port)
  /\ servers[DictGet(bg[frame["main"].c], frame["main"].use_port)].thread # None

\* What C2 asks of one step of thread t.
C2_Step(t) ==
  LET f == frame[t]
      wanted == ~has_server(f.c, f.use_port) /\ f.routes > 0
  IN
  /\ (pc[t] = "sr_check" /\ Moves(t))
       => IF wanted
          THEN pc'[t] = "sr_register"
          ELSE /\ pc'[t] = "idle"
               /\ outcome'[t] = "returned"
               /\ UNCHANGED <<servers, runs, bg, served_configs>>
  /\ (pc[t] = "sr_register" /\ Moves(t))
       => /\ wanted
          /\ Len(servers') = Len(servers) + 1
          /\ Keys(bg'[f.c]) = Keys(bg[f.c]) \cup {f.use_port}
          /\ DictGet(bg'[f.c], f.use_port) = Len(servers')
          /\ f.c \in Range(served_configs')
          /\ pc'[t] = "start_begin"
  /\ (pc[t] = "start_begin" /\ InServeRoutes(t) /\ Moves(t))
       => /\ Len(runs') = Len(runs) + 1
          /\ runs'[Len(runs')].port = f.use_port
          /\ servers'[f.s].thread = Len(runs')
          /\ pc'[t] = "start_wait"

\* C2: serve_routes registers and starts a new BackgroundServer exactly when
\* the configuration has no server for that exact port and the route list is
\* not empty: then it constructs one server, records it under the port and
\* the configuration in the registry, and starts its thread; otherwise (an
\* empty route list included) it returns with servers, table, registry and
\* threads as they were.
C2_RegistersExactlyWhenNeeded == [][C2_Step("main")]_vars

\* A serve_routes call with an empty route list stands at its check for a port
\* the configuration has no server for, next to a server an earlier call with
\* routes has started.
C2_Witness ==
  /\ pc["main"] = "sr_check"
  /\ frame["main"].routes = 0
  /\ ~has_server(frame["main"].c, frame["main"].use_port)
  /\ \E s \in 1..Len(servers) : servers[s].thread # None /\ runs[RunOf(s)].started

\* C3: repeated display / launch calls on one configuration with no explicit
\* port reuse a single background server and port: the configuration never
\* has more than one server, and once it has a started one a later call
\* resolves that server's port.
C3_DisplayReusesOneServer ==
  \A c \in Configs :
    /\ Len(bg[c]) <= 1
    /\ (/\ pc["main"] = "sr_check"
        /\ frame["main"].c = c
        /\ Len(bg[c]) = 1
        /\ servers[bg[c][1][2]].thread # None
        /\ runs[RunOf(bg[c][1][2])].started)
         => frame["main"].use_port = bg[c][1][1]

\* start waits for the flag of a server whose thread has ended on a failed bind.
BindFailedInStart ==
  /\ pc["main"] = "start_wait"
  /\ runs[RunOf(frame["main"].s)].st = "failed"

\* The call has ended by an exception.
StartRaised == pc["main"] = "idle" /\ outcome["main"] = "raised"

\* C4: when the server thread fails to bind its port, start ends by raising
\* the error to its caller; it does not wait for the started flag for ever.
C4_BindFailureSurfaces == BindFailedInStart ~> StartRaised

\* What C5 asks of one step of thread t.
C5_Step(t) ==
  (pc[t] = "start_wait" /\ pc'[t] = "idle" /\ outcome'[t] = "returned")
    => LET s == frame[t].s
           r == RunOf(s)
       IN /\ servers'[s].thread = r
          /\ servers'[s].server = r
          /\ runs'[r].started
          /\ runs'[r].st = "listening"
          /\ runs'[r].port = servers'[s].port

\* C5: start returns to its caller, for a thread it has created, only with
\* the started flag of its server true and the server listening on its port.
C5_StartReturnsListening == [][C5_Step("main")]_vars

\* A call has returned and left a server whose thread is set and listening.
C5_Witness ==
  /\ pc["main"] = "idle"
  /\ outcome["main"] = "returned"
  /\ \E s \in 1..Len(servers) :
       /\ servers[s].thread # None
       /\ runs[RunOf(s)].st = "listening"
       /\ runs[RunOf(s)].port = servers[s].port

\* What C6 asks of one step of thread t.
C6_Step(t) ==
  (pc[t] = "start_begin" /\ servers[frame[t].s].thread # None /\ Moves(t))
    => /\ UNCHANGED <<servers, runs>>
       /\ pc'[t] = "idle"
       /\ outcome'[t] = "returned"

\* C6: start on an instance whose thread is set creates no Server and no
\* Thread, leaves port, server and thread as they are, and returns.
C6_StartIsIdempotent == [][C6_Step("main")]_vars

\* start is entered, with another port, on an instance whose thread is set.
C6_Witness ==
  /\ pc["main"] = "start_begin"
  /\ servers[frame["main"].s].thread # None
  /\ frame["main"].use_port # servers[frame["main"].s].port

\* What C7 asks of one step of thread t.
C7_Step(t) ==
  LET s == frame[t].s IN
  /\ (pc[t] = "stop_begin" /\ Moves(t))
       => IF servers[s].thread = None
          THEN /\ UNCHANGED <<servers, runs>>
               /\ outcome'[t] # "raised"
          ELSE /\ runs'[RunOf(s)].should_exit
               /\ servers' = servers
               /\ pc'[t] = "stop_join"
  /\ (pc[t] = "stop_join" /\ Moves(t))
       => /\ servers'[s].thread = None
          /\ servers'[s].server = None
          /\ runs'[RunOf(s)].should_exit
          /\ (outcome'[t] # "raised" => runs'[RunOf(s)].st \in {"failed", "exited"})

\* C7: stop on a started instance sets should_exit of its server, goes on
\* past the join only when the thread has ended unless the join raises, and
\* in both cases leaves thread and server None; stop on an instance with no
\* thread changes no field.
C7_StopJoinsAndReleases == [][C7_Step("main")]_vars

\* A stop has raised out of its join: its thread, told to exit, still runs,
\* and no instance holds it any more.
C7_Witness ==
  /\ pc["main"] = "idle"
  /\ outcome["main"] = "raised"
  /\ \E r \in 1..Len(runs) :
       /\ runs[r].should_exit
       /\ runs[r].st = "listening"
       /\ \A s \in 1..Len(servers) : servers[s].thread # r /\ servers[s].server # r

\* A list without a repeated element.
NoDuplicates(sc) == \A i, j \in 1..Len(sc) : i # j => sc[i] # sc[j]

\* What C8 asks of one step.
C8_Step ==
  \A c \in Configs :
    Keys(bg'[c]) \ Keys(bg[c]) # {} => c \in Range(served_configs')

\* C8: no configuration ever occurs twice in served_configs, and whenever a
\* server is recorded in the table of a configuration, that configuration is
\* in served_configs.
C8_RegistryHasNoDuplicates ==
  [](NoDuplicates(served_configs)) /\ [][C8_Step]_vars

\* One configuration has been registered for two ports, next to another one.
C8_Witness ==
  /\ Len(served_configs) = 2
  /\ \E c \in Configs : Len(bg[c]) = 2

\* What C9 asks of one step of thread t.
C9_Step(t) ==
  LET f == frame[t]
      last == pc[t] = "sa_loop" /\ pc'[t] = "idle"
  IN
  /\ last
       => /\ f.log = f.snap
          /\ served_configs = f.snap
          /\ served_configs' = <<>>
          /\ outcome'[t] = "returned"
  /\ (f.op = "stop_all" /\ ~last) => served_configs' = f.snap
  /\ (f.op = "stop_all" /\ pc[t] = "sa_loop" /\ Moves(t) /\ ~last)
       => /\ f.i = Len(f.log) + 1
          /\ frame'[t].log = Append(f.log, f.snap[f.i])
          /\ frame'[t].c = f.snap[f.i]

\* C9: stop_all calls stop_all_servers on the configurations that were in
\* served_configs at the call, each once and in that order, leaves the list
\* alone until the last of these calls has returned, then empties the list
\* and returns.
C9_StopAllVisitsInOrder == [][C9_Step("main")]_vars

\* The loop of stop_all has been through two configurations and stopped a
\* running server; the list is still to be emptied.
C9_Witness ==
  /\ pc["main"] = "sa_loop"
  /\ Len(frame["main"].log) = 2
  /\ frame["main"].i > Len(served_configs)
  /\ \E r \in 1..Len(runs) : runs[r].st = "exited"

\* C10: with no explicit port the resolver ends on the first port from the
\* hint on that is not in use, whenever one of the MAX_PORT_TRIES candidates
\* hint .. hint + MAX_PORT_TRIES - 1 is free, and one resolution calls
\* is_port_in_use at most MAX_PORT_TRIES times.
C10_FirstFreePort ==
  LET f == frame["main"]
      free == {p \in f.hint .. (f.hint + MAX_PORT_TRIES - 1) : ~is_port_in_use(p)}
  IN f.port = None =>
       /\ f.probes <= MAX_PORT_TRIES
       /\ (pc["main"] = "resolved" /\ free # {})
            => /\ f.use_port \in free
               /\ \A q \in free : f.use_port <= q

\* The resolver has ended on the last candidate, the only free one, after
\* MAX_PORT_TRIES probes.
C10_Witness ==
  /\ pc["main"] = "resolved"
  /\ frame["main"].port = None
  /\ frame["main"].use_port = frame["main"].hint + MAX_PORT_TRIES - 1
  /\ ~is_port_in_use(frame["main"].use_port)
  /\ frame["main"].probes = MAX_PORT_TRIES

\* C11: when every one of the MAX_PORT_TRIES candidates from the hint on was
\* found in use, the resolution raises instead of handing back a port: it
\* never stands at its return (line 117) with a probed port that is in use.
C11_ExhaustionRaises ==
  (pc["main"] = "resolved" /\ frame["main"].port = None)
    => ~is_port_in_use(frame["main"].use_port)

\* What C13 asks of the step that ends a resolution of thread t.
C13_Step(t) ==
  (pc[t] = "resolved" /\ frame[t].proxy /\ ~frame[t].installed /\ Moves(t))
    => /\ pc'[t] = "idle"
       /\ outcome'[t] = "raised"
       /\ UNCHANGED <<servers, runs, bg, served_configs>>

\* C13: a resolution in proxy mode without the jupyter_server_proxy module
\* ends in an error raised to the caller, whatever the port, base URL and
\* host name arguments are, and the call creates and starts no server.
C13_ProxyWithoutCapabilityRaises == [][C13_Step("main")]_vars

\* The widgets constructed without an explicit port.
Probed == {w \in 1..Len(widgets) : widgets[w].port_arg = None}

\* What C12 asks of one step.
C12_Step ==
  /\ VitessceWidget_next_port' >= VitessceWidget_next_port
  /\ (Len(widgets') > Len(widgets) /\ widgets'[Len(widgets')].port_arg # None)
       => /\ VitessceWidget_next_port' = VitessceWidget_next_port
          /\ widgets'[Len(widgets')].port = widgets'[Len(widgets')].port_arg
          /\ frame["main"].probes = 0

\* C12: VitessceWidget.next_port never decreases; a construction with an
\* explicit port leaves it unchanged and uses that port without probing; and
\* of two constructions without an explicit port the later one gets the
\* strictly greater port.
C12_NextPortMonotone ==
  /\ [][C12_Step]_vars
  /\ [](\A v, w \in Probed : v < w => widgets[v].port < widgets[w].port)

\* Widgets were made without a port, with an explicit port, and again without.
C12_Witness ==
  /\ Len(widgets) = 3
  /\ widgets[1].port_arg = None
  /\ widgets[2].port_arg # None
  /\ widgets[3].port_arg = None
  /\ pc["main"] = "idle"

\* The wrappers of the path-based classes.
PathWrappers == {w \in 1..Len(wrappers) : wrappers[w].kind \in PathKinds}

\* C14: the constructor of every path-based wrapper class raises ValueError
\* when it is given both a local path and a remote URL, and leaves no
\* instance: no wrapper has both set.
C14_BothRaises ==
  /\ (wres.op = "init" /\ wres.kind \in PathKinds /\ both_given(wres.args))
       => (wres.raised /\ wres.w = 0)
  /\ \A w \in PathWrappers : ~(wrappers[w].path # NoStr /\ wrappers[w].url # NoStr)

\* An AnnDataWrapper was asked for with both adata_path and adata_url, and
\* the constructor raised.
C14_Witness ==
  /\ wres.op = "init"
  /\ wres.kind = "AnnDataWrapper"
  /\ both_given(wres.args)
  /\ wres.raised
  /\ wrappers = <<>>

\* C15: the constructor of every path-based wrapper class raises ValueError
\* when it is given neither a local path nor a remote URL, so every wrapper
\* has exactly one of the two set.
C15_NeitherRaises ==
  /\ (wres.op = "init" /\ wres.kind \in PathKinds /\ neither_given(wres.args))
       => (wres.raised /\ wres.w = 0)
  /\ \A w \in PathWrappers : (wrappers[w].path # NoStr) # (wrappers[w].url # NoStr)

\* The wrapper the last call was made on, and whether it wraps local data
\* and has been converted with the arguments of that call.
Last == wrappers[wres.w]

LastIsLocalUrl ==
  /\ wres.op = "get_source_url"
  /\ ~wres.raised
  /\ ~Last.is_remote

LastWasConverted ==
  \E i \in 1..Len(Last.file_def_creators) :
    Last.file_def_creators[i] = [dataset_uid |-> wres.dataset_uid, obj_i |-> wres.obj_i]

\* The POSIX-normalized path relative to the directory base: what is left of
\* an absolute path below base, and a relative path as it is.
RelativeTo(path, base) ==
  LET pp == KeptParts(split(path))
      bp == KeptParts(split(base))
  IN IF startswith_slash(path) /\ Len(pp) >= Len(bp) /\ SubSeq(pp, 1, Len(bp)) = bp
     THEN join_slash(SubSeq(pp, Len(bp) + 1, Len(pp)))
     ELSE join_slash(pp)

\* C16: under the mirrored policy the URL a local wrapper returns is the base
\* URL, one slash, and the normalized path of the source relative to base_dir
\* (for csv_path /data/cells.csv and base_dir /data: base_url/cells.csv).
C16_MirroredUrlIsRelative ==
  (LastIsLocalUrl /\ Last.base_dir # NoStr)
    => wres.value = wres.base_url \o <<"/">> \o RelativeTo(Last.path, Last.base_dir)

\* The file or directory a local wrapper serves as its source.
SourceFile(w) == IF w.base_dir = NoStr THEN w.path ELSE join(w.base_dir, w.path)

\* C17: the URL a converted local wrapper returns for the arguments of its
\* conversion is the base URL followed by the path of a route that the wrapper
\* registered for its source, under the indexed and the mirrored policy.
C17_UrlHasItsRoute ==
  (LastIsLocalUrl /\ LastWasConverted)
    => \E i \in 1..Len(Last.routes) :
         /\ wres.value = wres.base_url \o Last.routes[i].path
         /\ Last.routes[i].file = SourceFile(Last)
         /\ Last.routes[i].class = RouteClass(Last.kind)

\* What C18 asks of one step: an identifier, once minted, stays.
C18_Step ==
  \A w \in PathWrappers :
    wrappers[w].uid # NoStr /\ wrappers'[w].uid = wrappers[w].uid

\* C18: under the indexed policy get_csv_url(base_url, dataset_uid, obj_i) of a
\* local CsvWrapper is base_url/dataset_uid/obj_i/local_csv_uid, with the
\* identifier the constructor minted, which no later call changes.
C18_IndexedCsvUrl ==
  /\ []((LastIsLocalUrl /\ Last.kind = "CsvWrapper" /\ Last.base_dir = NoStr)
          => wres.value = wres.base_url \o <<"/">> \o wres.dataset_uid \o <<"/">>
                            \o Str(wres.obj_i) \o <<"/">> \o Last.uid)
  /\ [][C18_Step]_vars

\* A converted local CsvWrapper returned its indexed URL for object 1.
C18_Witness ==
  /\ LastIsLocalUrl
  /\ Last.kind = "CsvWrapper"
  /\ Last.base_dir = NoStr
  /\ LastWasConverted
  /\ wres.obj_i = 1
  /\ wres.value = wres.base_url \o <<"/", "A", "/", "1", "/">> \o Last.uid

\* The wrappers that make routes of their own, and the paths of a wrapper's
\* routes of one class.
Leaves == {w \in 1..Len(wrappers) : wrappers[w].kind # "MultiImageWrapper"}

Paths(w, class) ==
  {wrappers[w].routes[i].path :
     i \in {j \in 1..Len(wrappers[w].routes) : wrappers[w].routes[j].class = class}}

AllPaths(w) == {wrappers[w].routes[i].path : i \in 1..Len(wrappers[w].routes)}

\* C19: under the indexed policy no route path of one wrapper instance is a
\* route path of another, whatever (dataset_uid, obj_i) they were converted
\* with and also for the images of one MultiImageWrapper, whose routes are
\* those of its images; and the image route of an OmeTiffWrapper is never its
\* offsets route.
C19_IndexedRoutesDistinct ==
  /\ \A v, w \in Leaves : v # w => AllPaths(v) \cap AllPaths(w) = {}
  /\ \A w \in Leaves : Paths(w, "FileRoute") \cap Paths(w, "JsonRoute") = {}
  /\ \A m \in 1..Len(wrappers) \ Leaves :
       \A i \in 1..Len(wrappers[m].routes) :
         \E k \in 1..Len(wrappers[m].image_wrappers) :
           wrappers[m].routes[i] \in Range(wrappers[wrappers[m].image_wrappers[k]].routes)

\* Two OmeTiffWrappers on the same file were converted inside one
\* MultiImageWrapper, with the same dataset_uid and obj_i.
C19_Witness ==
  /\ Len(wrappers) = 3
  /\ wrappers[3].kind = "MultiImageWrapper"
  /\ wrappers[3].image_wrappers = <<1, 2>>
  /\ Len(wrappers[3].routes) = 4
  /\ wrappers[1].file_def_creators = wrappers[2].file_def_creators
  /\ wrappers[1].path = wrappers[2].path

\* The URL u without the base URL in front of it.
StripBase(u, base_url) ==
  IF Len(u) >= Len(base_url) /\ SubSeq(u, 1, Len(base_url)) = base_url
  THEN SubSeq(u, Len(base_url) + 1, Len(u))
  ELSE u

\* A file definition with the base URL taken off its URLs.
StripDef(d, base_url) ==
  IF d.fileType = RASTER_JSON
  THEN [d EXCEPT !.options.images =
          [i \in 1..Len(@) |->
             [@[i] EXCEPT !.url = StripBase(@, base_url),
                          !.metadata.omeTiffOffsetsUrl = StripBase(@, base_url)]]]
  ELSE [d EXCEPT !.url = StripBase(@, base_url)]

StripDefs(defs, base_url) == [i \in 1..Len(defs) |-> StripDef(defs[i], base_url)]

\* What C20 asks of one step: a call of get_file_defs changes no wrapper, and
\* it returns what the call before it on the same wrapper returned, up to
\* the base URL.
C20_Step ==
  (wres'.op = "get_file_defs" /\ (wres' # wres \/ wrappers' # wrappers))
    => /\ wrappers' = wrappers
       /\ (wres.op = "get_file_defs" /\ wres.w = wres'.w /\ ~wres.raised /\ ~wres'.raised)
            => StripDefs(wres'.value, wres'.base_url) = StripDefs(wres.value, wres.base_url)

\* C20: get_file_defs(base_url) changes no attribute of the wrapper, and two
\* calls on the same converted wrapper return file definitions that are equal
\* in every field but the base-URL part of the URLs, for every wrapper class
\* and also for an AnnDataWrapper with embedding paths and no embedding names.
C20_FileDefsRepeatable == [][C20_Step]_vars

\* What C21 asks of one step: a base_dir that is set stays as it is.
C21_Step ==
  \A w \in 1..Len(wrappers) :
    wrappers[w].base_dir # NoStr => wrappers'[w].base_dir = wrappers[w].base_dir

\* C21: once convert_and_save has set the base_dir of a wrapper, no later
\* call on the wrapper, a further convert_and_save included, changes it.
C21_BaseDirImmutable == [][C21_Step]_vars

\* A local OmeTiffWrapper whose one conversion returned, and the image
\* descriptor of the file definitions the last call returned.
LocalTiff(w) ==
  /\ w.kind = "OmeTiffWrapper"
  /\ ~w.is_remote
  /\ Len(w.file_def_creators) = 1

LastIsTiffDefs ==
  /\ wres.op = "get_file_defs"
  /\ ~wres.raised
  /\ LocalTiff(Last)

LastImage == wres.value[1].options.images[1]

\* The routes C22 asks for: image and offsets without base_dir, the image
\* alone with one.
C22_Routes ==
  \A w \in 1..Len(wrappers) :
    LocalTiff(wrappers[w]) =>
      LET routes == wrappers[w].routes
      IN IF wrappers[w].base_dir = NoStr
         THEN /\ Len(routes) = 2
              /\ routes[1].class = "FileRoute"
              /\ routes[2].class = "JsonRoute"
              /\ routes[2].path # routes[1].path
         ELSE /\ Len(routes) = 1
              /\ routes[1].class = "FileRoute"

\* C22: a converted local OmeTiffWrapper has registered an image route and an
\* offsets route when no base_dir is in effect, and its image descriptor then
\* has omeTiffOffsetsUrl equal to base_url plus the path of the offsets route;
\* with a base_dir it has registered the image route alone and the descriptor
\* has no omeTiffOffsetsUrl.
C22_OffsetsWhenIndexed ==
  /\ C22_Routes
  /\ LastIsTiffDefs =>
       IF Last.base_dir = NoStr
       THEN /\ "omeTiffOffsetsUrl" \in LastImage.metadata.keys
            /\ LastImage.metadata.omeTiffOffsetsUrl
                 = wres.base_url \o Last.routes[2].path
       ELSE "omeTiffOffsetsUrl" \notin LastImage.metadata.keys

\* C22 as amended: as C22, but a wrapper that was given an offsets_url has
\* that URL as omeTiffOffsetsUrl when no base_dir is in effect.
C22_OffsetsWhenIndexedOrGiven ==
  /\ C22_Routes
  /\ LastIsTiffDefs =>
       IF Last.base_dir = NoStr
       THEN /\ "omeTiffOffsetsUrl" \in LastImage.metadata.keys
            /\ LastImage.metadata.omeTiffOffsetsUrl
                 = IF Last.offsets_url # NoStr THEN Last.offsets_url
                   ELSE wres.base_url \o Last.routes[2].path
       ELSE "omeTiffOffsetsUrl" \notin LastImage.metadata.keys

\* A local OmeTiffWrapper without an offsets_url, converted with no base_dir,
\* returned a descriptor that points at its offsets route.
C22_Witness ==
  /\ LastIsTiffDefs
  /\ Last.base_dir = NoStr
  /\ Last.offsets_url = NoStr
  /\ Len(Last.routes) = 2
  /\ LastImage.metadata.omeTiffOffsetsUrl = wres.base_url \o Last.routes[2].path

\* The last call returned the file definitions of a converted OmeTiffWrapper.
LastIsImageDefs ==
  /\ wres.op = "get_file_defs"
  /\ ~wres.raised
  /\ Last.kind = "OmeTiffWrapper"
  /\ wres.value # <<>>

\* C23: the metadata of the image descriptor of an OmeTiffWrapper has a
\* transform entry only for a transformation_matrix that is not None and an
\* isBitmask entry only for an is_bitmask that is not False, and a descriptor
\* with neither of them and no offsets URL has no metadata key.
C23_MetadataOnlyNonDefault ==
  LastIsImageDefs =>
    /\ "transform" \in LastImage.metadata.keys => ~Last.transformation_matrix.none
    /\ "isBitmask" \in LastImage.metadata.keys => Last.is_bitmask
    /\ (Last.transformation_matrix.none /\ ~Last.is_bitmask
          /\ "omeTiffOffsetsUrl" \notin LastImage.metadata.keys)
         => "metadata" \notin LastImage.keys

\* Whether one of the optional data axes of an AnnDataWrapper was configured.
AxisConfigured(w) ==
  \/ ~w.mappings_obsm.none
  \/ ~w.cell_set_obs.none
  \/ w.spatial_centroid_obsm # NoStr
  \/ w.spatial_polygon_obsm # NoStr
  \/ w.expression_matrix # NoStr

\* The last call returned the file definitions of an AnnDataWrapper that was
\* converted once.
LastIsAnnDataDefs ==
  /\ wres.op = "get_file_defs"
  /\ ~wres.raised
  /\ Last.kind = "AnnDataWrapper"
  /\ Len(Last.file_def_creators) = 1

\* C24: get_file_defs(base_url) of a converted AnnDataWrapper returns no file
\* definition exactly when none of obs_embedding_paths, obs_set_paths,
\* obs_locations_path, obs_segmentations_path and obs_feature_matrix_path was
\* configured, and otherwise exactly one, whose options dict has a key.
C24_DefIffAxisConfigured ==
  LastIsAnnDataDefs =>
    /\ ~AxisConfigured(Last) <=> wres.value = <<>>
    /\ AxisConfigured(Last) =>
         /\ Len(wres.value) = 1
         /\ wres.value[1].options.keys # {}

\* An AnnDataWrapper with cell sets alone returned its one definition.
C24_Witness ==
  /\ LastIsAnnDataDefs
  /\ ~Last.cell_set_obs.none
  /\ Last.mappings_obsm.none
  /\ Len(wres.value) = 1
  /\ wres.value[1].options.keys = {"obsSets"}

\* The scopes of type cellSelection in the config of the widget of the last
\* lookup, and the value of one of them.
LookedUp == widgets[lookup.w].config.coordinationSpace

LookupScopes ==
  IF cellSelection \in Keys(LookedUp)
  THEN Keys(DictGet(LookedUp, cellSelection))
  ELSE {}

ScopeValue(scope) == DictGet(DictGet(LookedUp, cellSelection), scope)

\* Whether the message of the exception names the scope.
Names(message, scope) ==
  \E i \in 1..(Len(message) - 2) :
    /\ message[i] = "'"
    /\ message[i + 1] = scope[1]
    /\ message[i + 2] = "'"
    /\ i > 1
    /\ message[i - 1] \in {"[", ", "}

\* What C25 asks of a lookup that was made.
C25_Result ==
  lookup.w # 0 =>
    IF lookup.scope = NoStr
    THEN CASE Cardinality(LookupScopes) = 1 ->
                /\ ~lookup.raised
                /\ \A s \in LookupScopes : lookup.value = ScopeValue(s)
           [] Cardinality(LookupScopes) = 0 -> lookup.raised
           [] OTHER ->
                /\ lookup.raised
                /\ \A s \in LookupScopes : Names(lookup.message, s)
    ELSE IF lookup.scope \in LookupScopes
         THEN /\ ~lookup.raised
              /\ lookup.value = ScopeValue(lookup.scope)
         ELSE /\ lookup.raised
              /\ \A s \in LookupScopes : Names(lookup.message, s)

\* What C25 asks of one step: a lookup changes no widget.
C25_Step == lookup' # lookup => widgets' = widgets

\* C25: get_cell_selection(scope) without a scope returns the value of the
\* one scope of the type, raises with no scope, and raises naming every scope
\* with more than one; with a scope it returns the value of that scope, or
\* raises naming the known scopes when there is no such scope; and no lookup
\* changes the config of the widget.
C25_LookupByScope == []C25_Result /\ [][C25_Step]_vars

\* A lookup without a scope was refused for the two scopes A and B, with a
\* message that names both.
C25_Witness ==
  /\ lookup.w = 1
  /\ lookup.scope = NoStr
  /\ LookupScopes = {<<"A">>, <<"B">>}
  /\ lookup.raised
  /\ Names(lookup.message, <<"A">>)
  /\ Names(lookup.message, <<"B">>)

\* The nodes that a path of names leads to, from the nodes of a list.
RECURSIVE Reached(_, _)
Reached(nodes, path) ==
  UNION {IF nodes[i].name # Head(path) THEN {}
         ELSE IF Len(path) = 1 THEN {<<i>>}
         ELSE {<<i>> \o p : p \in Reached(nodes[i].children, Tail(path))} :
         i \in 1..Len(nodes)}

\* The node at a position of the tree.
RECURSIVE Subtree(_, _)
Subtree(nodes, pos) ==
  IF Len(pos) = 1 THEN nodes[pos[1]]
  ELSE Subtree(nodes[pos[1]].children, Tail(pos))

\* What C26 asks of a call of add_node whose parent_path leads to one node.
C26_Step ==
  (added'.called /\ <<tree, added>>' # <<tree, added>>
     /\ Cardinality(Reached(tree, added'.parent_path)) = 1)
    => LET pos == CHOOSE p \in Reached(tree, added'.parent_path) : TRUE
           parent == Subtree(tree, pos)
           parent_after == Subtree(tree', pos)
       IN /\ ~added'.raised
          /\ Len(parent_after.children) = Len(parent.children) + 1
          /\ parent_after.children[Len(parent_after.children)].name = added'.name
          /\ SubSeq(parent_after.children, 1, Len(parent.children)) = parent.children
          /\ tree' = append_child(tree, pos,
                         parent_after.children[Len(parent_after.children)])

\* C26: add_node(name, parent_path, cell_set) appends the new node as the
\* last child of the node that parent_path leads to from the root, at any
\* depth and at any position among its siblings, and changes no other node.
C26_AddNodeAppendsToParent == [][C26_Step]_vars

\* A thread is inside serve_routes, past the test of line 121, and has made
\* its BackgroundServer; and it has started it.
PastCheck(t) ==
  /\ frame[t].op = "serve_routes"
  /\ pc[t] \in {"start_begin", "start_wait"}

HasStarted(t) ==
  /\ PastCheck(t)
  /\ pc[t] = "start_wait"

\* C27: the test and the registration of serve_routes are not one atomic
\* step: two threads in serve_routes for the same configuration and port may
\* both be past the test, and then each has made and started a
\* BackgroundServer of its own for that port.
C27_EachThreadItsOwnServer ==
  \A t, u \in Threads :
    (t # u /\ PastCheck(t) /\ PastCheck(u))
      => /\ frame[t].s # frame[u].s
         /\ (HasStarted(t) /\ HasStarted(u))
              => /\ servers[frame[t].s].thread # None
                 /\ servers[frame[u].s].thread # None
                 /\ servers[frame[t].s].thread # servers[frame[u].s].thread
                 /\ servers[frame[t].s].port = frame[t].use_port
                 /\ servers[frame[u].s].port = frame[u].use_port

\* Both threads passed the test for configuration c1 and port DEFAULT_PORT,
\* and each has started its own BackgroundServer for that port.
C27_Witness ==
  /\ HasStarted("main")
  /\ HasStarted("other")
  /\ frame["main"].c = "c1"
  /\ frame["other"].c = "c1"
  /\ frame["main"].use_port = DEFAULT_PORT
  /\ frame["other"].use_port = DEFAULT_PORT
  /\ frame["main"].s # frame["other"].s
  /\ servers[frame["main"].s].port = DEFAULT_PORT
  /\ servers[frame["other"].s].port = DEFAULT_PORT
  /\ servers[frame["main"].s].thread # servers[frame["other"].s].thread

\* The URL of the source in a file definition: the url of the definition,
\* or of its one image.
DefUrl(d) == IF d.fileType = RASTER_JSON THEN d.options.images[1].url ELSE d.url

\* What C28 asks of one step: is_remote stays as the constructor set it.
C28_Step ==
  \A w \in 1..Len(wrappers) : wrappers'[w].is_remote = wrappers[w].is_remote

\* What C28 asks of every state: a wrapper made from a URL is remote, has no
\* route and no base_dir, and its URL and file definitions carry the URL it
\* was made from.
C28_State ==
  /\ \A w \in PathWrappers :
       /\ wrappers[w].is_remote <=> wrappers[w].url # NoStr
       /\ wrappers[w].is_remote
            => /\ wrappers[w].routes = <<>>
               /\ wrappers[w].base_dir = NoStr
  /\ (wres.op = "get_source_url" /\ Last.is_remote)
       => /\ ~wres.raised
          /\ wres.value = Last.url
  /\ (wres.op = "get_file_defs" /\ Last.is_remote)
       => /\ ~wres.raised
          /\ \A i \in 1..Len(wres.value) : DefUrl(wres.value[i]) = Last.url

\* C28: is_remote is fixed at construction and no later call changes it; a
\* wrapper made from a URL gets no route from convert_and_save, records no
\* base_dir, and the url of its file definitions is the remote URL as given,
\* for every base_url, dataset_uid and obj_i.
C28_RemoteStaysRemote == []C28_State /\ [][C28_Step]_vars

\* A remote CsvWrapper converted twice, the second time with a base_dir,
\* returned two file definitions with the URL it was made from.
C28_Witness ==
  /\ wres.op = "get_file_defs"
  /\ Last.is_remote
  /\ Last.kind = "CsvWrapper"
  /\ Len(wres.value) = 2
  /\ Last.file_def_creators[2].obj_i = 1
  /\ wres.value[2].url = <<"https://example.org/cells.csv">>
  /\ wres.base_url = <<"proxy/8000">>

\* A BackgroundServer whose start has completed: its thread is set and its
\* uvicorn server has flipped `started`.
StartCompleted(s) ==
  /\ servers[s].thread # None
  /\ runs[servers[s].server].started

\* C29: while serve_routes has not completed the start of the server it
\* made, because start is still to be called, has failed or does not
\* return, the configuration has no server recorded for the port.
C29_RecordedOnlyWhenStarted ==
  \A t \in Threads :
    (PastCheck(t) /\ ~StartCompleted(frame[t].s))
      => ~has_server(frame[t].c, frame[t].use_port)

\* The CsvWrapper instances.
CsvWrappers == {w \in 1..Len(wrappers) : wrappers[w].kind = "CsvWrapper"}

\* Whether list a is list b with entries appended.
Extends(a, b) == Len(a) >= Len(b) /\ SubSeq(a, 1, Len(b)) = b

\* What C30 asks of every state: as many routes as conversions, or none for
\* a remote wrapper, and as many file definitions.
C30_Counts ==
  /\ \A w \in CsvWrappers :
       Len(wrappers[w].routes)
         = IF wrappers[w].is_remote THEN 0 ELSE Len(wrappers[w].file_def_creators)
  /\ (wres.op = "get_file_defs" /\ Last.kind = "CsvWrapper")
       => /\ ~wres.raised
          /\ Len(wres.value) = Len(Last.file_def_creators)

\* What C30 asks of one step: a conversion appends one creator, and one
\* route if the wrapper is local; no step removes or changes an entry.
C30_Step ==
  \A w \in CsvWrappers :
    /\ Extends(wrappers'[w].file_def_creators, wrappers[w].file_def_creators)
    /\ Extends(wrappers'[w].routes, wrappers[w].routes)
    /\ (wres'.op = "convert_and_save" /\ wres'.w = w
          /\ <<wrappers, wres>>' # <<wrappers, wres>>)
         => /\ Len(wrappers'[w].file_def_creators)
                 = Len(wrappers[w].file_def_creators) + 1
            /\ Len(wrappers'[w].routes)
                 = Len(wrappers[w].routes) + (IF wrappers[w].is_remote THEN 0 ELSE 1)

\* C30: every convert_and_save call on a CsvWrapper appends one file
\* definition creator and, for a local wrapper, one route; after k calls
\* get_file_defs returns k definitions and get_routes k routes (none for a
\* remote wrapper), and the entries of both lists stay as they are, in order.
C30_ConvertAccumulates == []C30_Counts /\ [][C30_Step]_vars

\* A local CsvWrapper converted three times returned three definitions and
\* holds three routes.
C30_Witness ==
  /\ wres.op = "get_file_defs"
  /\ Last.kind = "CsvWrapper"
  /\ ~Last.is_remote
  /\ Len(Last.file_def_creators) = 3
  /\ Len(Last.routes) = 3
  /\ Len(wres.value) = 3

====
